---------------------------- MODULE Spec2Model ----------------------------
(***************************************************************************)
(* Model of the Thermal_App_API upsert engine:                             *)
(*   PUT  /api/data/update       (src/routes/update_data.py)               *)
(*   POST /api/upload-file-data  (src/routes/upload_file_data.py)          *)
(* over a PostgreSQL session (src/database.py).                            *)
(*                                                                         *)
(* Values are strings.  Python's None is the value None below; an integer  *)
(* is represented by its canonical decimal numeral, so that int("01") and  *)
(* int("1") are the same stored value "1" and int("x") raises ValueError.  *)
(* A table is the sequence of its rows in insertion order.                 *)
(***************************************************************************)
EXTENDS Integers, Sequences, FiniteSets, TLC

VARIABLES
    db,                     \* committed tables: table name -> sequence of rows
    tx,                     \* tables as the request's session sees them
    pc,                     \* "idle" | "update" | "upload" | "done"
    workload,               \* the class of sheets the client sends
    request,                \* rows of the request, sheets and rows in order
    data_to_process,        \* update: deduplicated buckets; upload: result
    idx,                    \* position in insert_order
    log,                    \* statements issued by the request, in order
    aborted,                \* the PostgreSQL transaction is in failed state
    pre,                    \* committed tables when the request began
    updated_record_counts,  \* update: per-table counter
    response                \* last response: [status, message]

vars == <<db, tx, pc, workload, request, data_to_process, idx, log, aborted,
          pre, updated_record_counts, response>>

---------------------------------------------------------------------------
(* Bounds *)

\* Rows carried by one request (all sheets together).
MaxRows == 2

\* Rows carried by one request of the presets workload.
MaxPresetRows == 3

\* Rows all tables together may hold before the client stops uploading.
MaxStoredRows == 5

\* Rows the append-only camera_in_zone table may reach before the client
\* stops sending rows that add to it.
MaxCameraInZone == 2

---------------------------------------------------------------------------
(* Values *)

None == "<None>"

\* int(v) for the string literals the workloads use; a literal outside the
\* domain raises ValueError.
IntLiteral == [x \in {"1", "01", "2", "02"} |-> IF x \in {"2", "02"} THEN "2" ELSE "1"]

\* row_dict.get(h): the value under header h, None when the header is absent.
Get(row, h) == IF h \in DOMAIN row THEN row[h] ELSE None

\* int(row_dict[h]) if row_dict.get(h) not in [None, ''] else None,
\* with ValueError/TypeError giving None.
IntOrNone(row, h) ==
    IF Get(row, h) \in {None, ""} THEN None
    ELSE IF row[h] \in DOMAIN IntLiteral THEN IntLiteral[row[h]]
    ELSE None

Tables == {"camera_configs", "camera_in_zone", "camera_presets", "zones",
           "customer", "temperatures"}

insert_order_children_first ==
    <<"camera_presets", "camera_in_zone", "customer", "zones", "camera_configs",
      "temperatures">>

\* update_data.py insert_order
insert_order == <<"customer", "zones", "camera_configs", "camera_presets",
                  "camera_in_zone", "temperatures">>

EmptyTables == [t \in Tables |-> <<>>]

ZeroCounts == [t \in Tables |-> 0]

NoResponse == [status |-> 0, message |-> "none"]

---------------------------------------------------------------------------
(* update_data.py: building the buckets from one row *)

customer_data(row) ==
    [client_id |-> Get(row, "client_id"),
     client_name |-> Get(row, "client_name")]

zone_data(row) ==
    [zone_id |-> Get(row, "zone_id"),
     zone_name |-> Get(row, "zone_name")]

camera_config_data(row) ==
    [camera_id |-> Get(row, "camera_id"),
     camera_ip |-> Get(row, "camera_ip"),
     camera_name |-> Get(row, "camera_name"),
     camera_location |-> Get(row, "camera_location"),
     camera_type |-> Get(row, "camera_type"),
     brand |-> Get(row, "brand"),
     model |-> Get(row, "model"),
     firmware_version |-> Get(row, "firmware_version"),
     client_id |-> Get(row, "client_id")]

camera_preset_data(row) ==
    [camera_id |-> Get(row, "camera_id"),
     preset_number |-> IntOrNone(row, "preset_number")]

camera_in_zone_data(row) ==
    [camera_id |-> Get(row, "camera_id"),
     zone_id |-> Get(row, "zone_id")]

temperature_data(row) ==
    [id |-> IntOrNone(row, "temperature_id"),
     measurement |-> IF Get(row, "measurement") # "" THEN Get(row, "measurement")
                     ELSE None,
     measurement_type |-> Get(row, "measurement_type"),
     description |-> Get(row, "description"),
     point_in_preset |-> IntOrNone(row, "point_in_preset"),
     preset_number |-> IntOrNone(row, "preset_number")]

\* The entries one row appends to table's bucket (none or one).
RowEntriesCameraNeedsName(table, row) ==
    CASE table = "customer" ->
           IF customer_data(row).client_id # None THEN <<customer_data(row)>> ELSE <<>>
      [] table = "zones" ->
           IF zone_data(row).zone_id # None THEN <<zone_data(row)>> ELSE <<>>
      [] table = "camera_configs" ->
           IF camera_config_data(row).camera_name # None
           THEN <<camera_config_data(row)>> ELSE <<>>
      [] table = "camera_presets" ->
           IF Get(row, "camera_id") # None /\ IntOrNone(row, "preset_number") # None
           THEN <<camera_preset_data(row)>> ELSE <<>>
      [] table = "camera_in_zone" ->
           IF Get(row, "camera_id") # None /\ Get(row, "zone_id") # None
           THEN <<camera_in_zone_data(row)>> ELSE <<>>
      [] table = "temperatures" ->
           IF temperature_data(row).id # None THEN <<temperature_data(row)>> ELSE <<>>

RowEntries(table, row) ==
    CASE table = "customer" ->
           IF customer_data(row).client_id # None THEN <<customer_data(row)>> ELSE <<>>
      [] table = "zones" ->
           IF zone_data(row).zone_id # None THEN <<zone_data(row)>> ELSE <<>>
      [] table = "camera_configs" ->
           IF camera_config_data(row).camera_id # None
           THEN <<camera_config_data(row)>> ELSE <<>>
      [] table = "camera_presets" ->
           IF Get(row, "camera_id") # None /\ IntOrNone(row, "preset_number") # None
           THEN <<camera_preset_data(row)>> ELSE <<>>
      [] table = "camera_in_zone" ->
           IF Get(row, "camera_id") # None /\ Get(row, "zone_id") # None
           THEN <<camera_in_zone_data(row)>> ELSE <<>>
      [] table = "temperatures" ->
           IF temperature_data(row).id # None THEN <<temperature_data(row)>> ELSE <<>>

\* The bucket of a table after the loop over the sheets' rows.
RECURSIVE Bucket(_, _)
Bucket(table, rows) ==
    IF rows = <<>> THEN <<>>
    ELSE Bucket(table, SubSeq(rows, 1, Len(rows) - 1))
             \o RowEntries(table, rows[Len(rows)])

\* The key function of each table's dict comprehension.
KeyOf(table, d) ==
    CASE table = "camera_presets" -> <<d.camera_id, d.preset_number>>
      [] table = "camera_in_zone" -> <<d.camera_id, d.zone_id>>
      [] table = "temperatures" -> <<d.id>>
      [] table = "customer" -> <<d.client_id>>
      [] table = "zones" -> <<d.zone_id>>
      [] table = "camera_configs" -> <<d.camera_id>>

\* list({key(d): d for d in s}.values()): a dict keeps the position of a
\* key's first occurrence and the value of its last.
UniqueDataKeepsFirst(table, s) ==
    LET firsts == {i \in DOMAIN s :
                     \A j \in 1..(i - 1) : KeyOf(table, s[j]) # KeyOf(table, s[i])}
        nth(n) == CHOOSE i \in firsts : Cardinality({x \in firsts : x <= i}) = n
    IN  [n \in 1..Cardinality(firsts) |-> s[nth(n)]]

UniqueData(table, s) ==
    LET firsts == {i \in DOMAIN s :
                     \A j \in 1..(i - 1) : KeyOf(table, s[j]) # KeyOf(table, s[i])}
        nth(n) == CHOOSE i \in firsts : Cardinality({x \in firsts : x <= i}) = n
        last(i) == CHOOSE j \in DOMAIN s :
                     /\ KeyOf(table, s[j]) = KeyOf(table, s[i])
                     /\ \A k \in (j + 1)..Len(s) : KeyOf(table, s[k]) # KeyOf(table, s[i])
    IN  [n \in 1..Cardinality(firsts) |-> s[last(nth(n))]]

\* data_to_process after extraction and deduplication.
Buckets(rows) == [t \in Tables |-> UniqueData(t, Bucket(t, rows))]

---------------------------------------------------------------------------
(* update_data.py: the statements of each table *)

Stmt(table, op) == [table |-> table, op |-> op]

\* on_conflict_target of the native-upsert tables.
on_conflict_target(table) ==
    CASE table = "customer" -> {"client_id"}
      [] table = "zones" -> {"zone_id"}
      [] table = "camera_configs" -> {"camera_id"}

OnConflictKeepsStoredOnNull(row, excluded, target) ==
    [c \in DOMAIN row |->
        IF c \in target \/ excluded[c] = None THEN row[c] ELSE excluded[c]]

\* ON CONFLICT DO UPDATE SET col = excluded.col for every column that is
\* not in the conflict target.
OnConflictDoUpdate(row, excluded, target) ==
    [c \in DOMAIN row |-> IF c \in target THEN row[c] ELSE excluded[c]]

SameOn(target, r, e) == \A c \in target : r[c] = e[c]

\* pg_insert(model).values(entries).on_conflict_do_update(...)
RECURSIVE NativeUpsert(_, _, _)
NativeUpsert(rows, entries, target) ==
    IF entries = <<>> THEN rows
    ELSE LET e == Head(entries)
             hit == {i \in DOMAIN rows : SameOn(target, rows[i], e)}
         IN  NativeUpsert(
                 IF hit # {}
                 THEN [i \in DOMAIN rows |->
                          IF i \in hit THEN OnConflictDoUpdate(rows[i], e, target)
                          ELSE rows[i]]
                 ELSE Append(rows, e),
                 Tail(entries), target)

\* UPDATE ... SET values: values is a function from some columns to values.
ApplyValues(row, values) ==
    [c \in DOMAIN row |-> IF c \in DOMAIN values THEN values[c] ELSE row[c]]

\* {k: v for k, v in entry.items() if v is not None}
NonNoneItems(entry) ==
    LET ks == {k \in DOMAIN entry : entry[k] # None}
    IN  [k \in ks |-> entry[k]]

ExistingPresetNeverFound(rows, entry) == {}

\* select(model).where(model.preset_number == entry["preset_number"])
ExistingPreset(rows, entry) ==
    {i \in DOMAIN rows : rows[i].preset_number = entry.preset_number}

\* The per-record manual upsert of camera_presets.  error: the select
\* found several rows (scalar_one_or_none raises MultipleResultsFound).
RECURSIVE PresetUpsert(_, _)
PresetUpsert(st, entries) ==
    IF entries = <<>> \/ st.error THEN st
    ELSE LET e == Head(entries)
             hit == ExistingPreset(st.rows, e)
             sel == Stmt("camera_presets", "select")
         IN  IF Cardinality(hit) > 1
             THEN [st EXCEPT !.error = TRUE, !.log = Append(@, sel)]
             ELSE IF hit # {}
             THEN PresetUpsert(
                    [rows |-> IF DOMAIN NonNoneItems(e) # {}
                              THEN [i \in DOMAIN st.rows |->
                                      IF i \in hit
                                      THEN ApplyValues(st.rows[i], NonNoneItems(e))
                                      ELSE st.rows[i]]
                              ELSE st.rows,
                     error |-> FALSE,
                     count |-> st.count + 1,
                     log |-> st.log \o <<sel>> \o
                             (IF DOMAIN NonNoneItems(e) # {}
                              THEN <<Stmt("camera_presets", "update")>> ELSE <<>>)],
                    Tail(entries))
             ELSE PresetUpsert(
                    [rows |-> Append(st.rows, e),
                     error |-> FALSE,
                     count |-> st.count + 1,
                     log |-> st.log \o <<sel, Stmt("camera_presets", "insert")>>],
                    Tail(entries))

\* existing_records_dict: id -> the row fetched for it (the last one when
\* several rows carry the id).
ExistingRecord(rows, id) ==
    rows[CHOOSE i \in DOMAIN rows :
            /\ rows[i].id = id
            /\ \A j \in (i + 1)..Len(rows) : rows[j].id # id]

MergeOverwritesWithNone(entry, existing) ==
    [k \in DOMAIN entry \ {"id"} |-> entry[k]]

\* update_values of an existing temperature: the incoming value when it is
\* neither None nor '', else the stored value when that is not None, else
\* the column is left out of the statement.
update_values(entry, existing) ==
    LET ks == {k \in DOMAIN entry \ {"id"} :
                  \/ (entry[k] # None /\ entry[k] # "")
                  \/ (k \in DOMAIN existing /\ existing[k] # None)}
    IN  [k \in ks |-> IF entry[k] # None /\ entry[k] # "" THEN entry[k]
                      ELSE existing[k]]

TemperatureUpsertCountsAll(rows, entries) ==
    LET existingIds == {rows[i].id : i \in DOMAIN rows}
        isOld(e) == e.id \in existingIds
        inserts_only_batch == SelectSeq(entries, LAMBDA e : ~isOld(e))
        updates == SelectSeq(entries,
                     LAMBDA e : isOld(e) /\
                        DOMAIN update_values(e, ExistingRecord(rows, e.id)) # {})
        valuesFor(id) ==
            LET e == entries[CHOOSE n \in DOMAIN entries : entries[n].id = id]
            IN  update_values(e, ExistingRecord(rows, id))
        updatedIds == {updates[n].id : n \in DOMAIN updates}
        afterUpdates == [i \in DOMAIN rows |->
                            IF rows[i].id \in updatedIds
                            THEN ApplyValues(rows[i], valuesFor(rows[i].id))
                            ELSE rows[i]]
    IN  [rows |-> afterUpdates \o inserts_only_batch,
         error |-> FALSE,
         count |-> Len(entries),
         log |-> <<Stmt("temperatures", "select")>>
                 \o (IF inserts_only_batch # <<>>
                     THEN <<Stmt("temperatures", "insert")>> ELSE <<>>)
                 \o [n \in DOMAIN updates |-> Stmt("temperatures", "update")]]

\* The temperatures branch: one select, one batch insert of the new ids,
\* then one update per existing id that has values to set.
TemperatureUpsert(rows, entries) ==
    LET existingIds == {rows[i].id : i \in DOMAIN rows}
        isOld(e) == e.id \in existingIds
        inserts_only_batch == SelectSeq(entries, LAMBDA e : ~isOld(e))
        updates == SelectSeq(entries,
                     LAMBDA e : isOld(e) /\
                        DOMAIN update_values(e, ExistingRecord(rows, e.id)) # {})
        valuesFor(id) ==
            LET e == entries[CHOOSE n \in DOMAIN entries : entries[n].id = id]
            IN  update_values(e, ExistingRecord(rows, id))
        updatedIds == {updates[n].id : n \in DOMAIN updates}
        afterUpdates == [i \in DOMAIN rows |->
                            IF rows[i].id \in updatedIds
                            THEN ApplyValues(rows[i], valuesFor(rows[i].id))
                            ELSE rows[i]]
    IN  [rows |-> afterUpdates \o inserts_only_batch,
         error |-> FALSE,
         count |-> Len(inserts_only_batch) + Len(updates),
         log |-> <<Stmt("temperatures", "select")>>
                 \o (IF inserts_only_batch # <<>>
                     THEN <<Stmt("temperatures", "insert")>> ELSE <<>>)
                 \o [n \in DOMAIN updates |-> Stmt("temperatures", "update")]]

WriteTableSkipsStoredPairs(table, rows, entries) ==
    CASE table = "camera_presets" ->
           PresetUpsert([rows |-> rows, error |-> FALSE, count |-> 0, log |-> <<>>],
                        entries)
      [] table = "camera_in_zone" ->
           LET fresh == SelectSeq(entries,
                          LAMBDA e : \A i \in DOMAIN rows : rows[i] # e)
           IN  [rows |-> rows \o fresh, error |-> FALSE, count |-> Len(fresh),
                log |-> <<Stmt(table, "insert")>>]
      [] table = "temperatures" -> TemperatureUpsert(rows, entries)
      [] OTHER ->
           [rows |-> NativeUpsert(rows, entries, on_conflict_target(table)),
            error |-> FALSE, count |-> Len(entries),
            log |-> <<Stmt(table, "upsert")>>]

\* What one iteration of "for table_name in insert_order" does to the
\* session's tables: [rows, error, count, log].
WriteTable(table, rows, entries) ==
    CASE table = "camera_presets" ->
           PresetUpsert([rows |-> rows, error |-> FALSE, count |-> 0, log |-> <<>>],
                        entries)
      [] table = "camera_in_zone" ->
           [rows |-> rows \o entries, error |-> FALSE, count |-> Len(entries),
            log |-> <<Stmt(table, "insert")>>]
      [] table = "temperatures" -> TemperatureUpsert(rows, entries)
      [] OTHER ->
           [rows |-> NativeUpsert(rows, entries, on_conflict_target(table)),
            error |-> FALSE, count |-> Len(entries),
            log |-> <<Stmt(table, "upsert")>>]

\* The next position of order at or after i whose bucket is not empty
\* ("if not entries: continue"), Len(order) + 1 when there is none.
NextTable(order, data, i) ==
    LET js == {j \in i..Len(order) : data[order[j]] # <<>>}
    IN  IF js = {} THEN Len(order) + 1
        ELSE CHOOSE j \in js : \A k \in js : j <= k

RollbackKeepsWrites(committed, session) == session

\* session.rollback() in the handler's except clause: the committed tables
\* are what they were, the session's writes are gone.
Rollback(committed, session) == committed

---------------------------------------------------------------------------
(* The sheets a client sends.  A row is row_dict: header -> value. *)

PresetRows ==
    {[camera_id |-> "c1", preset_number |-> "1"],
     [camera_id |-> "c2", preset_number |-> "1"],
     [camera_id |-> "c1", preset_number |-> "01"],
     [camera_id |-> "c2", preset_number |-> "x"],
     [preset_number |-> "1"]}

CustomerRows ==
    {[client_id |-> k, client_name |-> n] :
        k \in {"k1", "k2"}, n \in {None, "a", "b"}}

ZoneRows ==
    {[zone_id |-> z, zone_name |-> n] :
        z \in {"z1", "z2"}, n \in {None, "y", "w"}}

CameraRows ==
    {[camera_id |-> "c1", camera_name |-> n, client_id |-> k] :
        n \in {None, "n1"}, k \in {None, "k1"}}
    \cup {[camera_id |-> "c1", camera_name |-> "n2", brand |-> "b1"],
          [camera_id |-> "c2", camera_ip |-> "ip2"]}

TemperatureRows ==
    {[temperature_id |-> "1", measurement |-> "m1", description |-> "d1"],
     [temperature_id |-> "1", measurement |-> "m2", description |-> None],
     [temperature_id |-> "1", measurement |-> "", description |-> ""],
     [temperature_id |-> "1", measurement |-> None, description |-> "d2"],
     [temperature_id |-> "02", measurement_type |-> ""],
     [temperature_id |-> "1", point_in_preset |-> "01", preset_number |-> "2"],
     [temperature_id |-> "1", point_in_preset |-> "x", preset_number |-> ""],
     [temperature_id |-> "x", measurement |-> "m1"]}

LinkedRows ==
    {[client_id |-> "k1", zone_id |-> "z1", camera_id |-> "c1", preset_number |-> "1"],
     [client_id |-> None, zone_id |-> "z1", camera_id |-> "c1", preset_number |-> None],
     [client_id |-> "k1", zone_id |-> None, camera_id |-> "c1", preset_number |-> None],
     [client_id |-> None, zone_id |-> None, camera_id |-> "c1", preset_number |-> "1"],
     [client_id |-> None, zone_id |-> "z1", camera_id |-> "c2", preset_number |-> "1"],
     [client_id |-> "k1", zone_id |-> "z1"]}

Workloads == {"presets", "customer", "zones", "cameras", "temperatures", "linked"}

RowsOf(w) ==
    CASE w = "presets" -> PresetRows
      [] w = "customer" -> CustomerRows
      [] w = "zones" -> ZoneRows
      [] w = "cameras" -> CameraRows
      [] w = "temperatures" -> TemperatureRows
      [] w = "linked" -> LinkedRows

RowLimit(w) == IF w = "presets" THEN MaxPresetRows ELSE MaxRows

\* The requests of a workload: up to RowLimit rows.
Requests(w) == UNION {[1..n -> RowsOf(w)] : n \in 0..RowLimit(w)}

---------------------------------------------------------------------------
(* PUT /api/data/update *)

Init ==
    /\ db = EmptyTables
    /\ tx = EmptyTables
    /\ pc = "idle"
    /\ workload \in Workloads
    /\ request = <<>>
    /\ data_to_process = EmptyTables
    /\ idx = 1
    /\ log = <<>>
    /\ aborted = FALSE
    /\ pre = EmptyTables
    /\ updated_record_counts = ZeroCounts
    /\ response = NoResponse

\* The request arrives: the buckets are built and deduplicated.
UReceive ==
    /\ pc = "idle"
    /\ \E rows \in Requests(workload) :
         LET buckets == Buckets(rows)
         IN  /\ Len(db["camera_in_zone"]) + Len(buckets["camera_in_zone"])
                   <= MaxCameraInZone
             /\ request' = rows
             /\ data_to_process' = buckets
             /\ idx' = NextTable(insert_order, buckets, 1)
    /\ pc' = "update"
    /\ tx' = db
    /\ pre' = db
    /\ log' = <<>>
    /\ updated_record_counts' = ZeroCounts
    /\ response' = NoResponse
    /\ UNCHANGED <<db, workload, aborted>>

\* One iteration of the write loop, on the next table that has entries.
UWrite ==
    /\ pc = "update"
    /\ idx <= Len(insert_order)
    /\ LET t == insert_order[idx]
           w == WriteTable(t, tx[t], data_to_process[t])
       IN  /\ ~w.error
           /\ tx' = [tx EXCEPT ![t] = w.rows]
           /\ updated_record_counts' = [updated_record_counts EXCEPT ![t] = @ + w.count]
           /\ log' = log \o w.log
    /\ idx' = NextTable(insert_order, data_to_process, idx + 1)
    /\ UNCHANGED <<db, pc, workload, request, data_to_process, aborted, pre, response>>

\* A statement of the current table (or the commit) raises: the handler's
\* except clause rolls back and answers 500.
UFail ==
    /\ pc = "update"
    /\ db' = Rollback(db, tx)
    /\ tx' = Rollback(db, tx)
    /\ log' = Append(log, IF idx <= Len(insert_order)
                          THEN Stmt(insert_order[idx], "error")
                          ELSE Stmt("session", "error"))
    /\ response' = [status |-> 500, message |-> "Failed to update file data"]
    /\ pc' = "done"
    /\ UNCHANGED <<workload, request, data_to_process, idx, aborted, pre,
                   updated_record_counts>>

\* session.commit() and the success response.
UCommit ==
    /\ pc = "update"
    /\ idx = Len(insert_order) + 1
    /\ db' = tx
    /\ log' = Append(log, Stmt("session", "commit"))
    /\ response' = [status |-> 200, message |-> "File data updated successfully"]
    /\ pc' = "done"
    /\ UNCHANGED <<tx, workload, request, data_to_process, idx, aborted, pre,
                   updated_record_counts>>

\* The response has been sent and the request's session is closed
\* (get_async_session leaves "async with"): the handler's locals are gone.
Return ==
    /\ pc = "done"
    /\ pc' = "idle"
    /\ tx' = db
    /\ request' = <<>>
    /\ data_to_process' = EmptyTables
    /\ idx' = 1
    /\ log' = <<>>
    /\ aborted' = FALSE
    /\ pre' = db
    /\ updated_record_counts' = ZeroCounts
    /\ response' = NoResponse
    /\ UNCHANGED <<db, workload>>

Next == UReceive \/ UWrite \/ UFail \/ UCommit \/ Return

Spec == Init /\ [][Next]_vars

---------------------------------------------------------------------------
(* POST /api/upload-file-data *)

\* upload_file_data.py header_mapping: table -> (column -> header)
header_mapping ==
    [camera_configs |->
        [camera_id |-> "Camera ID", camera_ip |-> "Camera IP",
         camera_name |-> "Camera Name", camera_location |-> "Camera Location",
         camera_type |-> "Camera Type", brand |-> "Brand", model |-> "Model",
         firmware_version |-> "Firmware Version"],
     camera_in_zone |-> [camera_id |-> "Camera ID", zone_id |-> "Zone ID"],
     camera_presets |-> [preset_number |-> "Preset Number", camera_id |-> "Camera ID"],
     zones |-> [zone_id |-> "Zone ID", zone_name |-> "Zone Name"],
     customer |-> [client_id |-> "Client ID", client_name |-> "Client Name",
                   camera_id |-> "Camera ID"]]

UploadTables == DOMAIN header_mapping

upload_insert_order_customer_first ==
    <<"customer", "zones", "camera_configs", "camera_presets", "camera_in_zone">>

\* upload_file_data.py insert_order
upload_insert_order ==
    <<"zones", "camera_configs", "camera_presets", "camera_in_zone", "customer">>

\* The descriptions of the workload in which desc.lower() contains "alarm".
AlarmDescriptions == {"High ALARM", "alarm 2"}

\* desc = row_dict.get("DESCRIPTION(V1)", ""); skip when it is a string
\* whose lower case contains "alarm".
IsAlarmRow(row) ==
    /\ "DESCRIPTION(V1)" \in DOMAIN row
    /\ row["DESCRIPTION(V1)"] \in AlarmDescriptions

\* The entry a row appends to result[table]: none when a mapped header is
\* missing or None.
UploadEntries(table, row) ==
    LET mappings == header_mapping[table]
    IN  IF \E c \in DOMAIN mappings : Get(row, mappings[c]) = None
        THEN <<>>
        ELSE <<[c \in DOMAIN mappings |-> row[mappings[c]]]>>

RECURSIVE UploadResult(_, _)
UploadResult(table, rows) ==
    IF rows = <<>> THEN <<>>
    ELSE UploadResult(table, SubSeq(rows, 1, Len(rows) - 1))
            \o (IF IsAlarmRow(rows[Len(rows)]) THEN <<>>
                ELSE UploadEntries(table, rows[Len(rows)]))

\* The type conversion of the try block.  ok = FALSE: it raised (ValueError
\* from int(), KeyError from entry["preset_number"] on a camera_in_zone
\* entry, which has no such key).
Converted(table, entry) ==
    CASE table = "camera_presets" ->
           IF entry.preset_number \in DOMAIN IntLiteral
           THEN [ok |-> TRUE,
                 entry |-> [entry EXCEPT !.preset_number = IntLiteral[@]]]
           ELSE [ok |-> FALSE, entry |-> entry]
      [] table = "camera_in_zone" ->
           IF "preset_number" \in DOMAIN entry
           THEN [ok |-> TRUE, entry |-> entry]
           ELSE [ok |-> FALSE, entry |-> entry]
      [] OTHER -> [ok |-> TRUE, entry |-> entry]

\* "for entry in entries" of one table.  st = [rows, log, aborted]; failAt is
\* the position of the entry whose insert the database rejects (0: none).
\* Every exception is caught and the loop goes on; once a statement has
\* failed, PostgreSQL rejects every later statement of the transaction.
RECURSIVE UploadInserts(_, _, _, _, _)
UploadInserts(st, table, entries, n, failAt) ==
    IF n > Len(entries) THEN st
    ELSE LET c == Converted(table, entries[n])
         IN  UploadInserts(
                IF ~c.ok
                THEN [st EXCEPT !.log = Append(@, Stmt(table, "pyerror"))]
                ELSE IF st.aborted \/ n = failAt
                THEN [st EXCEPT !.log = Append(@, Stmt(table, "dberror")),
                                !.aborted = TRUE]
                ELSE [st EXCEPT !.log = Append(@, Stmt(table, "insert")),
                                !.rows = Append(@, c.entry)],
                table, entries, n + 1, failAt)

\* session.commit(): COMMIT of a failed PostgreSQL transaction rolls it back.
Commit(committed, session, failed) == IF failed THEN committed ELSE session

UploadRows ==
    {("Zone ID" :> "z1" @@ "Zone Name" :> "y"),
     ("Camera ID" :> "c1" @@ "Camera IP" :> "ip1" @@ "Camera Name" :> "n1"
        @@ "Camera Location" :> "l1" @@ "Camera Type" :> "t1" @@ "Brand" :> "b1"
        @@ "Model" :> "m1" @@ "Firmware Version" :> "f1" @@ "Zone ID" :> "z1"
        @@ "Preset Number" :> "01" @@ "Client ID" :> "k1" @@ "Client Name" :> "a"),
     ("Camera ID" :> "c1" @@ "Preset Number" :> "x"),
     ("Client ID" :> "k1" @@ "Client Name" :> "a" @@ "Camera ID" :> "c1"
        @@ "Camera IP" :> None),
     ("Zone ID" :> "z1" @@ "Zone Name" :> "y" @@ "DESCRIPTION(V1)" :> "High ALARM")}

UploadRequests == UNION {[1..n -> UploadRows] : n \in 0..MaxRows}

StoredRows(tables) ==
    Len(tables["zones"]) + Len(tables["camera_configs"]) + Len(tables["camera_presets"])
        + Len(tables["camera_in_zone"]) + Len(tables["customer"])

InitUpload ==
    /\ db = EmptyTables
    /\ tx = EmptyTables
    /\ pc = "idle"
    /\ workload = "upload"
    /\ request = <<>>
    /\ data_to_process = EmptyTables
    /\ idx = 1
    /\ log = <<>>
    /\ aborted = FALSE
    /\ pre = EmptyTables
    /\ updated_record_counts = ZeroCounts
    /\ response = NoResponse

\* The request arrives and result is built.
UpReceive ==
    /\ pc = "idle"
    /\ \E rows \in UploadRequests :
         LET result == [t \in Tables |->
                          IF t \in UploadTables THEN UploadResult(t, rows) ELSE <<>>]
         IN  /\ StoredRows(db) + StoredRows(result) <= MaxStoredRows
             /\ request' = rows
             /\ data_to_process' = result
             /\ idx' = NextTable(upload_insert_order, result, 1)
    /\ pc' = "upload"
    /\ tx' = db
    /\ pre' = db
    /\ log' = <<>>
    /\ aborted' = FALSE
    /\ response' = NoResponse
    /\ UNCHANGED <<db, workload, updated_record_counts>>

\* The entries of the next table that has some are inserted one by one.
UpWrite ==
    /\ pc = "upload"
    /\ idx <= Len(upload_insert_order)
    /\ LET t == upload_insert_order[idx]
       IN  \E failAt \in 0..Len(data_to_process[t]) :
             LET st == UploadInserts([rows |-> tx[t], log |-> log, aborted |-> aborted],
                                     t, data_to_process[t], 1, failAt)
             IN  /\ tx' = [tx EXCEPT ![t] = st.rows]
                 /\ log' = st.log
                 /\ aborted' = st.aborted
    /\ idx' = NextTable(upload_insert_order, data_to_process, idx + 1)
    /\ UNCHANGED <<db, pc, workload, request, data_to_process, pre,
                   updated_record_counts, response>>

\* "record_count": {k: len(v) for k, v in result.items()}
record_count(result) == [t \in Tables |-> Len(result[t])]

\* session.commit() and the response.
UpCommit ==
    /\ pc = "upload"
    /\ idx = Len(upload_insert_order) + 1
    /\ db' = Commit(db, tx, aborted)
    /\ log' = Append(log, Stmt("session", "commit"))
    /\ response' = [status |-> 200, message |-> "Upload complete"]
    /\ updated_record_counts' = record_count(data_to_process)
    /\ pc' = "done"
    /\ UNCHANGED <<tx, workload, request, data_to_process, idx, aborted, pre>>

\* session.commit() raises: nothing catches it, the framework answers 500
\* and the session is closed without a commit.
UpCommitFails ==
    /\ pc = "upload"
    /\ idx = Len(upload_insert_order) + 1
    /\ log' = Append(log, Stmt("session", "error"))
    /\ response' = [status |-> 500, message |-> "Internal Server Error"]
    /\ pc' = "done"
    /\ UNCHANGED <<db, tx, workload, request, data_to_process, idx, aborted, pre,
                   updated_record_counts>>

NextUpload == UpReceive \/ UpWrite \/ UpCommit \/ UpCommitFails \/ Return

SpecUpload == InitUpload /\ [][NextUpload]_vars

---------------------------------------------------------------------------
(* The configuration routes: /configurations, /egress_endpoints,          *)
(* /schedules, /data_selectors.  A request body is the JSON object, a     *)
(* function from keys to values; booleans are the strings "true" and      *)
(* "false"; the database-managed created_at and updated_at are left out.  *)

ConfigTables ==
    {"eds_egress_configurations", "eds_egress_config_data_selectors_mapping",
     "eds_egress_endpoints", "eds_schedules", "eds_data_selectors"}

\* A handler's outcome: the tables it leaves and the response.
Result(tables, status, detail) ==
    [tables |-> tables, status |-> status, detail |-> detail]

\* The rows select(Model).where(Model.id == id) returns.
WhereId(rows, id) == {i \in DOMAIN rows : rows[i].id = id}

\* delete(Model).where(...) and session.delete(obj): the rows that stay.
Remaining(rows, column, value) == SelectSeq(rows, LAMBDA r : r[column] # value)

\* The JSON key under which the body supplies a field: keys is the field's
\* alias followed, under populate_by_name, by its name; 0 when unset.
SuppliedKey(keys, body) ==
    IF \A n \in DOMAIN keys : keys[n] \notin DOMAIN body THEN 0
    ELSE CHOOSE n \in DOMAIN keys :
            /\ keys[n] \in DOMAIN body
            /\ \A m \in 1..(n - 1) : keys[m] \notin DOMAIN body

\* model_dump(exclude_unset=True): the fields the body supplies, under the
\* names the dump gives them, with the supplied values.
model_dump_exclude_unset(fields, body) ==
    LET set == {c \in DOMAIN fields : SuppliedKey(fields[c], body) # 0}
    IN  [c \in set |-> body[fields[c][SuppliedKey(fields[c], body)]]]

\* model_dump(): every field, the unset ones with their defaults.
model_dump(fields, defaults, body) ==
    [c \in DOMAIN fields |->
        IF SuppliedKey(fields[c], body) # 0
        THEN body[fields[c][SuppliedKey(fields[c], body)]]
        ELSE defaults[c]]

\* The required fields the body does not supply (the framework answers 422
\* before the handler runs).
MissingRequired(fields, defaults, body) ==
    {c \in DOMAIN fields \ DOMAIN defaults : SuppliedKey(fields[c], body) = 0}

\* "for key, value in update_data.items(): setattr(obj, key, value)" on the
\* rows with the id.
SetAttrs(rows, id, update_data) ==
    [i \in DOMAIN rows |->
        IF rows[i].id = id THEN ApplyValues(rows[i], update_data) ELSE rows[i]]

\* The session is closed without a commit when a statement or the commit
\* raises: nothing of the request is stored and the framework answers 500.
DatabaseRejects(tables) == Result(tables, 500, "Internal Server Error")

(* /configurations *)

\* ConfigurationUpdate: dump name -> accepted keys.
ConfigurationUpdate ==
    [name |-> <<"name">>,
     description |-> <<"description">>,
     enabled |-> <<"enabled">>,
     endpointid |-> <<"endpointid", "endpointId">>,
     scheduleid |-> <<"scheduleid", "scheduleId">>,
     dataSelectorIds |-> <<"dataSelectorIds">>,
     namespaceid |-> <<"namespaceid", "namespaceId">>,
     backfill |-> <<"backfill">>,
     streamprefix |-> <<"streamprefix", "streamPrefix">>,
     typeprefix |-> <<"typeprefix", "typePrefix">>]

\* ConfigurationCreate: the fields of ConfigurationBase and id.
ConfigurationCreate ==
    [id |-> <<"id">>,
     name |-> <<"name">>,
     description |-> <<"description">>,
     enabled |-> <<"enabled">>,
     endpointid |-> <<"endpointid", "endpointId">>,
     scheduleid |-> <<"scheduleid", "scheduleId">>,
     namespaceid |-> <<"namespaceid", "namespaceId">>,
     backfill |-> <<"backfill">>,
     streamprefix |-> <<"streamprefix", "streamPrefix">>,
     typeprefix |-> <<"typeprefix", "typePrefix">>]

\* The defaults of ConfigurationBase (name and id have none).
ConfigurationDefaults ==
    [description |-> None, enabled |-> "true", endpointid |-> None,
     scheduleid |-> None, namespaceid |-> "default", backfill |-> "false",
     streamprefix |-> None, typeprefix |-> None]

create_configuration_unchecked(tables, body) ==
    LET config_data == model_dump(ConfigurationCreate, ConfigurationDefaults, body)
        T == "eds_egress_configurations"
    IN  IF MissingRequired(ConfigurationCreate, ConfigurationDefaults, body) # {}
        THEN Result(tables, 422, "Unprocessable Entity")
        ELSE IF config_data.id # config_data.name
        THEN Result(tables, 400, "Configuration ID must be the same as its Name.")
        ELSE Result([tables EXCEPT ![T] = Append(@, config_data)], 201, "created")

\* POST /configurations/
create_configuration(tables, body) ==
    LET config_data == model_dump(ConfigurationCreate, ConfigurationDefaults, body)
        T == "eds_egress_configurations"
    IN  IF MissingRequired(ConfigurationCreate, ConfigurationDefaults, body) # {}
        THEN Result(tables, 422, "Unprocessable Entity")
        ELSE IF config_data.id # config_data.name
        THEN Result(tables, 400, "Configuration ID must be the same as its Name.")
        ELSE IF WhereId(tables[T], config_data.id) # {}
        THEN Result(tables, 400, "Configuration already exists.")
        ELSE Result([tables EXCEPT ![T] = Append(@, config_data)], 201, "created")

\* GET /configurations/{config_id}
read_configuration(tables, config_id) ==
    IF WhereId(tables["eds_egress_configurations"], config_id) = {}
    THEN Result(tables, 404, "Configuration not found")
    ELSE Result(tables, 200, "configuration")

\* JSON null in the list-typed field dataSelectorIds (a list of ids never
\* holds null, so no list is confused with it).
NoList == <<None>>

new_mappings_none(config_id, data_selector_ids) == <<>>

\* new_mappings = [MappingDB(ec_id=config_id, ds_id=ds_id) for ds_id in ...]
new_mappings(config_id, data_selector_ids) ==
    [n \in DOMAIN data_selector_ids |->
        [ec_id |-> config_id, ds_id |-> data_selector_ids[n]]]

update_configuration_replaces(tables, config_id, body) ==
    LET T == "eds_egress_configurations"
        dumped == model_dump(ConfigurationUpdate,
                             [c \in DOMAIN ConfigurationUpdate |-> None], body)
        update_data == [c \in DOMAIN dumped \ {"dataSelectorIds"} |-> dumped[c]]
    IN  IF WhereId(tables[T], config_id) = {}
        THEN Result(tables, 404, "Configuration not found")
        ELSE Result([tables EXCEPT ![T] = SetAttrs(@, config_id, update_data)],
                    200, "configuration")

\* PUT /configurations/{config_id}
update_configuration(tables, config_id, body) ==
    LET T == "eds_egress_configurations"
        M == "eds_egress_config_data_selectors_mapping"
        dumped == model_dump_exclude_unset(ConfigurationUpdate, body)
        data_selector_ids == IF "dataSelectorIds" \in DOMAIN dumped
                             THEN dumped["dataSelectorIds"] ELSE NoList
        update_data == [c \in DOMAIN dumped \ {"dataSelectorIds"} |-> dumped[c]]
        mappings(rows) ==
            IF data_selector_ids = NoList THEN rows
            ELSE Remaining(rows, "ec_id", config_id)
                    \o new_mappings(config_id, data_selector_ids)
    IN  IF WhereId(tables[T], config_id) = {}
        THEN Result(tables, 404, "Configuration not found")
        ELSE Result([tables EXCEPT ![T] = SetAttrs(@, config_id, update_data),
                                   ![M] = mappings(@)],
                    200, "configuration")

delete_configuration_keeps_mappings(tables, config_id) ==
    LET T == "eds_egress_configurations"
    IN  IF WhereId(tables[T], config_id) = {}
        THEN Result(tables, 404, "Configuration not found")
        ELSE Result([tables EXCEPT
                        ![T] = Remaining(@, "id", config_id)],
                    204, "")

\* DELETE /configurations/{config_id}
delete_configuration(tables, config_id) ==
    LET T == "eds_egress_configurations"
        M == "eds_egress_config_data_selectors_mapping"
    IN  IF WhereId(tables[T], config_id) = {}
        THEN Result(tables, 404, "Configuration not found")
        ELSE Result([tables EXCEPT
                        ![M] = Remaining(@, "ec_id", config_id),
                        ![T] = Remaining(@, "id", config_id)],
                    204, "")

(* /egress_endpoints *)

\* str(HttpUrl(v)) for the URL literals of the workload: a URL with an
\* empty path gets the path "/"; a literal outside the domain is not a URL
\* and fails validation.
HttpUrlStr ==
    [v \in {"http://a", "http://a/", "https://t/x"} |->
        IF v = "http://a" THEN "http://a/" ELSE v]

\* The fields of the egress endpoint models that are typed HttpUrl.
HttpUrlFields == {"endpoint", "tokenendpoint"}

\* A supplied HttpUrl field holds something that is not a URL (422).
InvalidUrls(dumped) ==
    {c \in DOMAIN dumped \cap HttpUrlFields :
        dumped[c] # None /\ dumped[c] \notin DOMAIN HttpUrlStr}

\* convert_httpurl_to_str over the validated model's dump.
convert_httpurl_to_str(data) ==
    [c \in DOMAIN data |->
        IF c \in HttpUrlFields /\ data[c] \in DOMAIN HttpUrlStr
        THEN HttpUrlStr[data[c]] ELSE data[c]]

\* EgressEndpointCreate: the fields of EgressEndpointBase and id.
EgressEndpointCreate ==
    [id |-> <<"id">>,
     endpoint |-> <<"endpoint">>,
     username |-> <<"userName", "username">>,
     password |-> <<"password">>,
     clientid |-> <<"clientId", "clientid">>,
     clientsecret |-> <<"clientSecret", "clientsecret">>,
     debugexpiration |-> <<"debugExpiration", "debugexpiration">>,
     tokenendpoint |-> <<"tokenEndpoint", "tokenendpoint">>,
     validateendpointcertificate |->
        <<"validateEndpointCertificate", "validateendpointcertificate">>]

\* EgressEndpointUpdate: endpoint and tokenendpoint are declared again,
\* without an alias.
EgressEndpointUpdate ==
    [endpoint |-> <<"endpoint">>,
     username |-> <<"userName", "username">>,
     password |-> <<"password">>,
     clientid |-> <<"clientId", "clientid">>,
     clientsecret |-> <<"clientSecret", "clientsecret">>,
     debugexpiration |-> <<"debugExpiration", "debugexpiration">>,
     tokenendpoint |-> <<"tokenendpoint">>,
     validateendpointcertificate |->
        <<"validateEndpointCertificate", "validateendpointcertificate">>]

\* The defaults of EgressEndpointBase (endpoint and id have none).
EgressEndpointDefaults ==
    [username |-> None, password |-> None, clientid |-> None,
     clientsecret |-> None, debugexpiration |-> None, tokenendpoint |-> None,
     validateendpointcertificate |-> "true"]

\* POST /egress_endpoints/
create_egress_endpoint(tables, body) ==
    LET endpoint_data == model_dump(EgressEndpointCreate, EgressEndpointDefaults, body)
        T == "eds_egress_endpoints"
    IN  IF \/ MissingRequired(EgressEndpointCreate, EgressEndpointDefaults, body) # {}
           \/ InvalidUrls(endpoint_data) # {}
        THEN Result(tables, 422, "Unprocessable Entity")
        ELSE IF WhereId(tables[T], endpoint_data.id) # {}
        THEN Result(tables, 400, "Egress Endpoint already exists.")
        ELSE Result([tables EXCEPT
                        ![T] = Append(@, convert_httpurl_to_str(endpoint_data))],
                    201, "created")

read_egress_endpoint_empty_object(tables, egress_endpoint_id) ==
    Result(tables, 200, "egress endpoint")

\* GET /egress_endpoints/{egress_endpoint_id}
read_egress_endpoint(tables, egress_endpoint_id) ==
    IF WhereId(tables["eds_egress_endpoints"], egress_endpoint_id) = {}
    THEN Result(tables, 404, "Egress Endpoint not found")
    ELSE Result(tables, 200, "egress endpoint")

\* PUT /egress_endpoints/{egress_endpoint_id}
update_egress_endpoint(tables, egress_endpoint_id, body) ==
    LET T == "eds_egress_endpoints"
        dumped == model_dump_exclude_unset(EgressEndpointUpdate, body)
    IN  IF InvalidUrls(dumped) # {}
        THEN Result(tables, 422, "Unprocessable Entity")
        ELSE IF WhereId(tables[T], egress_endpoint_id) = {}
        THEN Result(tables, 404, "Egress Endpoint not found")
        ELSE Result([tables EXCEPT
                        ![T] = SetAttrs(@, egress_endpoint_id,
                                        convert_httpurl_to_str(dumped))],
                    200, "egress endpoint")

(* /schedules *)

\* ScheduleUpdate
ScheduleUpdate ==
    [period |-> <<"period">>, starttime |-> <<"startTime", "starttime">>]

\* POST /schedules/
create_schedule(tables, body) ==
    Result(tables, 405, "Schedule creation is not allowed.")

\* GET /schedules/{schedule_id}
read_schedule(tables, schedule_id) ==
    IF WhereId(tables["eds_schedules"], schedule_id) = {}
    THEN Result(tables, 404, "Schedule not found")
    ELSE Result(tables, 200, "schedule")

\* PUT /schedules/{schedule_id}
update_schedule(tables, schedule_id, body) ==
    LET T == "eds_schedules"
        update_data == model_dump_exclude_unset(ScheduleUpdate, body)
    IN  IF WhereId(tables[T], schedule_id) = {}
        THEN Result(tables, 404, "Schedule not found")
        ELSE Result([tables EXCEPT ![T] = SetAttrs(@, schedule_id, update_data)],
                    200, "schedule")

(* /data_selectors *)

\* DataSelectorUpdate
DataSelectorUpdate ==
    [streamfilter |-> <<"streamFilter", "streamfilter">>,
     absolutedeadband |-> <<"absoluteDeadband", "absolutedeadband">>,
     percentchange |-> <<"percentChange", "percentchange">>,
     expirationperiod |-> <<"expirationPeriod", "expirationperiod">>]

\* POST /data_selectors/
create_data_selector(tables, body) ==
    Result(tables, 405, "Data Selector creation is not allowed.")

\* GET /data_selectors/{selector_id}
read_data_selector(tables, selector_id) ==
    IF WhereId(tables["eds_data_selectors"], selector_id) = {}
    THEN Result(tables, 404, "Data Selector not found")
    ELSE Result(tables, 200, "data selector")

\* PUT /data_selectors/{selector_id}
update_data_selector(tables, selector_id, body) ==
    LET T == "eds_data_selectors"
        update_data == model_dump_exclude_unset(DataSelectorUpdate, body)
    IN  IF WhereId(tables[T], selector_id) = {}
        THEN Result(tables, 404, "Data Selector not found")
        ELSE Result([tables EXCEPT ![T] = SetAttrs(@, selector_id, update_data)],
                    200, "data selector")

(* The requests clients send to the configuration routes *)

ConfigurationIds == {"g1", "g2"}

ConfigurationCreateBodies ==
    {[id |-> "g1", name |-> "g1"],
     [id |-> "g1", name |-> "g1", description |-> "d1"],
     [id |-> "g2", name |-> "g2", description |-> "d1", endpointId |-> "e1",
      enabled |-> "false"],
     [id |-> "g1", name |-> "n2"],
     [id |-> "g2"]}

ConfigurationUpdateBodies ==
    {<<>>,
     [description |-> None],
     [enabled |-> "false", endpointId |-> "e1"],
     [dataSelectorIds |-> <<>>],
     [dataSelectorIds |-> <<"d1", "d2">>],
     [dataSelectorIds |-> <<"d2">>, description |-> "d2"],
     [dataSelectorIds |-> NoList, name |-> "n2"]}

EgressEndpointIds == {"e1", "e2"}

EgressEndpointCreateBodies ==
    {[id |-> "e1", endpoint |-> "http://a"],
     [id |-> "e1", endpoint |-> "https://t/x", password |-> "p1"],
     [id |-> "e2", endpoint |-> "https://t/x", userName |-> "u1",
      tokenEndpoint |-> "https://t/x"],
     [id |-> "e2"],
     [id |-> "e2", endpoint |-> "a b"]}

EgressEndpointUpdateBodies ==
    {<<>>,
     [endpoint |-> "http://a"],
     [userName |-> None],
     [username |-> "u2", validateEndpointCertificate |-> "false"],
     [tokenendpoint |-> "https://t/x"],
     [tokenEndpoint |-> "http://a"],
     [endpoint |-> "a b"]}

ScheduleIds == {"s1", "s9"}

ScheduleUpdateBodies ==
    {<<>>,
     [period |-> "0:01:00"],
     [startTime |-> "t1"],
     [starttime |-> None, period |-> "0:00:30"],
     [period |-> None]}

DataSelectorIds == {"d1", "d2", "d9"}

DataSelectorUpdateBodies ==
    {<<>>,
     [streamFilter |-> "f2"],
     [percentChange |-> "10", absolutedeadband |-> None],
     [expirationperiod |-> "0:01:00"],
     [streamfilter |-> None]}

\* The rows the deployment's database holds before the first request:
\* schedules and data selectors cannot be created through the API.
SeededTables ==
    [eds_egress_configurations |-> <<>>,
     eds_egress_config_data_selectors_mapping |-> <<>>,
     eds_egress_endpoints |-> <<>>,
     eds_schedules |->
        <<[id |-> "s1", period |-> "0:00:15", starttime |-> None]>>,
     eds_data_selectors |->
        <<[id |-> "d1", streamfilter |-> "f1", absolutedeadband |-> None,
           percentchange |-> None, expirationperiod |-> None],
          [id |-> "d2", streamfilter |-> None, absolutedeadband |-> "0.5",
           percentchange |-> "5", expirationperiod |-> None]>>]

ConfigWorkloads ==
    {"configurations", "egress_endpoints", "schedules", "data_selectors"}

InitConfig ==
    /\ db = SeededTables
    /\ tx = SeededTables
    /\ pc = "idle"
    /\ workload \in ConfigWorkloads
    /\ request = <<>>
    /\ data_to_process = EmptyTables
    /\ idx = 1
    /\ log = <<>>
    /\ aborted = FALSE
    /\ pre = SeededTables
    /\ updated_record_counts = ZeroCounts
    /\ response = NoResponse

\* The handler has run on the request's own session and the response is
\* sent.  written: the database accepted the handler's statements and its
\* commit; a handler that raised HTTPException has written nothing.
Respond(op, id, body, result, written) ==
    LET out == IF written \/ result.status >= 400 THEN result
               ELSE DatabaseRejects(db)
    IN  /\ pc' = "done"
        /\ request' = [op |-> op, id |-> id, body |-> body]
        /\ pre' = db
        /\ db' = out.tables
        /\ tx' = out.tables
        /\ response' = [status |-> out.status, message |-> out.detail]
        /\ UNCHANGED <<workload, data_to_process, idx, log, aborted,
                       updated_record_counts>>

CreateConfiguration ==
    /\ pc = "idle" /\ workload = "configurations"
    /\ \E body \in ConfigurationCreateBodies : \E written \in BOOLEAN :
         Respond("create_configuration", None, body,
                 create_configuration(db, body), written)

ReadConfiguration ==
    /\ pc = "idle" /\ workload = "configurations"
    /\ \E id \in ConfigurationIds :
         Respond("read_configuration", id, <<>>, read_configuration(db, id), TRUE)

UpdateConfiguration ==
    /\ pc = "idle" /\ workload = "configurations"
    /\ \E id \in ConfigurationIds : \E body \in ConfigurationUpdateBodies :
         \E written \in BOOLEAN :
           Respond("update_configuration", id, body,
                   update_configuration(db, id, body), written)

DeleteConfiguration ==
    /\ pc = "idle" /\ workload = "configurations"
    /\ \E id \in ConfigurationIds : \E written \in BOOLEAN :
         Respond("delete_configuration", id, <<>>,
                 delete_configuration(db, id), written)

CreateEgressEndpoint ==
    /\ pc = "idle" /\ workload = "egress_endpoints"
    /\ \E body \in EgressEndpointCreateBodies : \E written \in BOOLEAN :
         Respond("create_egress_endpoint", None, body,
                 create_egress_endpoint(db, body), written)

ReadEgressEndpoint ==
    /\ pc = "idle" /\ workload = "egress_endpoints"
    /\ \E id \in EgressEndpointIds :
         Respond("read_egress_endpoint", id, <<>>,
                 read_egress_endpoint(db, id), TRUE)

UpdateEgressEndpoint ==
    /\ pc = "idle" /\ workload = "egress_endpoints"
    /\ \E id \in EgressEndpointIds : \E body \in EgressEndpointUpdateBodies :
         \E written \in BOOLEAN :
           Respond("update_egress_endpoint", id, body,
                   update_egress_endpoint(db, id, body), written)

CreateSchedule ==
    /\ pc = "idle" /\ workload = "schedules"
    /\ \E body \in ScheduleUpdateBodies :
         Respond("create_schedule", None, body, create_schedule(db, body), TRUE)

ReadSchedule ==
    /\ pc = "idle" /\ workload = "schedules"
    /\ \E id \in ScheduleIds :
         Respond("read_schedule", id, <<>>, read_schedule(db, id), TRUE)

UpdateSchedule ==
    /\ pc = "idle" /\ workload = "schedules"
    /\ \E id \in ScheduleIds : \E body \in ScheduleUpdateBodies :
         \E written \in BOOLEAN :
           Respond("update_schedule", id, body,
                   update_schedule(db, id, body), written)

CreateDataSelector ==
    /\ pc = "idle" /\ workload = "data_selectors"
    /\ \E body \in DataSelectorUpdateBodies :
         Respond("create_data_selector", None, body,
                 create_data_selector(db, body), TRUE)

ReadDataSelector ==
    /\ pc = "idle" /\ workload = "data_selectors"
    /\ \E id \in DataSelectorIds :
         Respond("read_data_selector", id, <<>>, read_data_selector(db, id), TRUE)

UpdateDataSelector ==
    /\ pc = "idle" /\ workload = "data_selectors"
    /\ \E id \in DataSelectorIds : \E body \in DataSelectorUpdateBodies :
         \E written \in BOOLEAN :
           Respond("update_data_selector", id, body,
                   update_data_selector(db, id, body), written)

NextConfig ==
    \/ CreateConfiguration \/ ReadConfiguration
    \/ UpdateConfiguration \/ DeleteConfiguration
    \/ CreateEgressEndpoint \/ ReadEgressEndpoint \/ UpdateEgressEndpoint
    \/ CreateSchedule \/ ReadSchedule \/ UpdateSchedule
    \/ CreateDataSelector \/ ReadDataSelector \/ UpdateDataSelector
    \/ Return

SpecConfig == InitConfig /\ [][NextConfig]_vars

---------------------------------------------------------------------------
(* User management: /auth/login, /auth/change-password, /users.  A user   *)
(* id and a role id are decimal numerals; usm_user_accounts_id_seq is the *)
(* serial that numbers new accounts.                                      *)

\* The numeral of a positive integer.
Numeral == <<"1", "2", "3", "4", "5", "6", "7", "8", "9">>

\* hashlib.sha256(password.encode("utf-8")).hexdigest() of the passwords of
\* the workload: a digest is written sha256(...); distinct passwords have
\* distinct digests and no password of the workload is its own digest.
hash_password_sha256 ==
    [p \in {"", "helios", "pw1", "Passw0rd!x", "PASSWORD1", "xxU1xxxx", "HEX64"} |->
        CASE p = "" -> "sha256()"
          [] p = "helios" -> "sha256(helios)"
          [] p = "pw1" -> "sha256(pw1)"
          [] p = "Passw0rd!x" -> "sha256(Passw0rd!x)"
          [] p = "PASSWORD1" -> "sha256(PASSWORD1)"
          [] p = "xxU1xxxx" -> "sha256(xxU1xxxx)"
          [] p = "HEX64" -> "sha256(HEX64)"]

\* is_sha256_hex(value): a string of 64 characters that int(value, 16)
\* accepts.  Every digest is one; HEX64 stands for a password of 64
\* hexadecimal digits.
is_sha256_hex(value) ==
    value \in {hash_password_sha256[p] : p \in DOMAIN hash_password_sha256}
                 \cup {"HEX64"}

\* get_default_password() with DEFAULT_USER_PASSWORD unset.
get_default_password == "helios"

\* "x or y" of Python for a string or None.
Or(x, y) == IF x \in {None, ""} THEN y ELSE x

\* str.lower() of the passwords and usernames of the workload.
lower ==
    [s \in DOMAIN hash_password_sha256 \cup {"u1", "u2", "u3"} |->
        CASE s = "PASSWORD1" -> "password1"
          [] s = "Passw0rd!x" -> "passw0rd!x"
          [] s = "xxU1xxxx" -> "xxu1xxxx"
          [] s = "HEX64" -> "hex64"
          [] OTHER -> s]

\* The common-password deny-list (the entries the workload can hit).
COMMON == {"123456", "password", "password1", "12345678", "admin", "welcome"}

\* "a in b" for the lower-cased usernames and passwords of the workload.
Contains(a, b) == <<a, b>> \in {<<"u1", "xxu1xxxx">>}

\* len(new_password) >= 8 (Field(min_length=8)).
min_length_8 == {"Passw0rd!x", "PASSWORD1", "xxU1xxxx", "HEX64"}

\* A handler's outcome with the must_change_password of a token response.
UserResult(tables, status, detail, must_change_password) ==
    [tables |-> tables, status |-> status, detail |-> detail,
     must_change_password |-> must_change_password]

\* The rows select(Users).where(Users.username == username) returns.
WhereUsername(rows, username) == {i \in DOMAIN rows : rows[i].username = username}

\* update(Users).where(Users.id == id).values(...)
UpdateWhereId(rows, id, values) ==
    [i \in DOMAIN rows |->
        IF rows[i].id = id THEN ApplyValues(rows[i], values) ELSE rows[i]]

\* The id of the role with the name (the rows it is stored under).
RoleByName(tables, role_name) ==
    {i \in DOMAIN tables["usm_roles"] : tables["usm_roles"][i].role_name = role_name}

login_never_migrates(tables, payload) ==
    LET U == "usm_user_accounts"
        hit == WhereUsername(tables[U], payload.username)
        user_row == tables[U][CHOOSE i \in hit : TRUE]
        stored_password == Or(user_row.password, "")
        default_pwd(stored) == hash_password_sha256[get_default_password] = stored
    IN  IF Cardinality(hit) > 1
        THEN UserResult(tables, 500, "Internal Server Error", FALSE)
        ELSE IF hit = {}
        THEN UserResult(tables, 401, "Invalid credentials", FALSE)
        ELSE IF is_sha256_hex(stored_password)
        THEN IF hash_password_sha256[payload.password] # stored_password
             THEN UserResult(tables, 401, "Invalid credentials", FALSE)
             ELSE UserResult(tables, 200, "token", default_pwd(stored_password))
        ELSE IF payload.password # stored_password
             THEN UserResult(tables, 401, "Invalid credentials", FALSE)
             ELSE UserResult(tables, 200, "token", TRUE)

\* POST /auth/login
login(tables, payload) ==
    LET U == "usm_user_accounts"
        hit == WhereUsername(tables[U], payload.username)
        user_row == tables[U][CHOOSE i \in hit : TRUE]
        stored_password == Or(user_row.password, "")
        new_hash == hash_password_sha256[payload.password]
        default_pwd(stored) == hash_password_sha256[get_default_password] = stored
    IN  IF Cardinality(hit) > 1
        THEN UserResult(tables, 500, "Internal Server Error", FALSE)
        ELSE IF hit = {}
        THEN UserResult(tables, 401, "Invalid credentials", FALSE)
        ELSE IF is_sha256_hex(stored_password)
        THEN IF hash_password_sha256[payload.password] # stored_password
             THEN UserResult(tables, 401, "Invalid credentials", FALSE)
             ELSE UserResult(tables, 200, "token", default_pwd(stored_password))
        ELSE IF payload.password # stored_password
             THEN UserResult(tables, 401, "Invalid credentials", FALSE)
             ELSE UserResult(
                      [tables EXCEPT ![U] = UpdateWhereId(@, user_row.id,
                                                          [password |-> new_hash])],
                      200, "token", TRUE)

change_password_without_deny_list(tables, payload) ==
    LET U == "usm_user_accounts"
        hit == WhereUsername(tables[U], payload.username)
        user_row == tables[U][CHOOSE i \in hit : TRUE]
        stored == Or(user_row.password, "")
        new_hash == hash_password_sha256[payload.new_password]
    IN  IF payload.new_password \notin min_length_8
        THEN UserResult(tables, 422, "Unprocessable Entity", FALSE)
        ELSE IF Cardinality(hit) > 1
        THEN UserResult(tables, 500, "Internal Server Error", FALSE)
        ELSE IF hit = {}
        THEN UserResult(tables, 404, "User not found", FALSE)
        ELSE IF (IF is_sha256_hex(stored)
                 THEN hash_password_sha256[payload.current_password] # stored
                 ELSE payload.current_password # stored)
        THEN UserResult(tables, 400, "Current password is incorrect", FALSE)
        ELSE UserResult(
                 [tables EXCEPT ![U] = UpdateWhereId(@, user_row.id,
                                                     [password |-> new_hash])],
                 200, "ok", FALSE)

\* POST /auth/change-password
change_password(tables, payload) ==
    LET U == "usm_user_accounts"
        hit == WhereUsername(tables[U], payload.username)
        user_row == tables[U][CHOOSE i \in hit : TRUE]
        stored == Or(user_row.password, "")
        new_hash == hash_password_sha256[payload.new_password]
    IN  IF payload.new_password \notin min_length_8
        THEN UserResult(tables, 422, "Unprocessable Entity", FALSE)
        ELSE IF Cardinality(hit) > 1
        THEN UserResult(tables, 500, "Internal Server Error", FALSE)
        ELSE IF hit = {}
        THEN UserResult(tables, 404, "User not found", FALSE)
        ELSE IF (IF is_sha256_hex(stored)
                 THEN hash_password_sha256[payload.current_password] # stored
                 ELSE payload.current_password # stored)
        THEN UserResult(tables, 400, "Current password is incorrect", FALSE)
        ELSE IF lower[payload.new_password] \in COMMON
        THEN UserResult(tables, 400, "Password is too common", FALSE)
        ELSE IF \/ lower[payload.username] = lower[payload.new_password]
                \/ Contains(lower[payload.username], lower[payload.new_password])
        THEN UserResult(tables, 400, "Password must not contain username", FALSE)
        ELSE UserResult(
                 [tables EXCEPT ![U] = UpdateWhereId(@, user_row.id,
                                                     [password |-> new_hash])],
                 200, "ok", FALSE)

\* The role id create_user and update_user resolve: payload.role_id, else
\* the id of the role named role_name; "not found" when no role has the name.
ResolveRole(tables, payload) ==
    LET role_id == Get(payload, "role_id")
        role_name == Get(payload, "role_name")
    IN  IF role_id = None /\ role_name \notin {None, ""}
        THEN IF RoleByName(tables, role_name) = {} THEN "not found"
             ELSE tables["usm_roles"][CHOOSE i \in RoleByName(tables, role_name) : TRUE].id
        ELSE role_id

\* POST /users
create_user(tables, payload) ==
    LET U == "usm_user_accounts"
        S == "usm_user_accounts_id_seq"
        role_id == ResolveRole(tables, payload)
        default_password == Or(Get(payload, "default_password"), get_default_password)
        password_hash == hash_password_sha256[default_password]
    IN  IF "username" \notin DOMAIN payload
        THEN UserResult(tables, 422, "Unprocessable Entity", FALSE)
        ELSE IF payload.username = ""
        THEN UserResult(tables, 400, "username is required", FALSE)
        ELSE IF role_id = "not found"
        THEN UserResult(tables, 400, "role_name not found", FALSE)
        ELSE UserResult(
                 [tables EXCEPT
                    ![U] = Append(@, [id |-> Numeral[tables[S] + 1],
                                      username |-> payload.username,
                                      password |-> password_hash,
                                      role_id |-> role_id]),
                    ![S] = @ + 1],
                 200, "ok", FALSE)

\* PATCH /users/{user_id}
update_user(tables, user_id, payload) ==
    LET U == "usm_user_accounts"
        new_role_id == ResolveRole(tables, payload)
    IN  IF new_role_id = "not found"
        THEN UserResult(tables, 400, "role_name not found", FALSE)
        ELSE IF new_role_id = None
        THEN UserResult(tables, 400, "Nothing to update", FALSE)
        ELSE UserResult(
                 [tables EXCEPT ![U] = UpdateWhereId(@, user_id,
                                                     [role_id |-> new_role_id])],
                 200, "ok", FALSE)

\* DELETE /users/{user_id}
delete_user(tables, user_id) ==
    UserResult([tables EXCEPT
                   !["usm_user_accounts"] = Remaining(@, "id", user_id)],
               200, "ok", FALSE)

(* The requests clients send to the user routes *)

\* Accounts the serial may number before the client stops creating users.
MaxUserId == 3

Usernames == {"u1", "u2", "u3"}

LoginPasswords == {"", "helios", "pw1", "HEX64"}

LoginRequests ==
    {[username |-> u, password |-> p] : u \in Usernames, p \in LoginPasswords}

ChangePasswordRequests ==
    {[username |-> u, current_password |-> c, new_password |-> n] :
        u \in {"u1", "u3"}, c \in {"pw1", "helios"},
        n \in {"pw1", "PASSWORD1", "xxU1xxxx", "Passw0rd!x"}}
      \cup {[username |-> "u2", current_password |-> "", new_password |-> "Passw0rd!x"]}

CreateUserRequests ==
    {[username |-> "u3", role_name |-> "admin"],
     [username |-> "u3", default_password |-> "pw1", role_id |-> "2"],
     [username |-> "u1"],
     [username |-> "", role_id |-> "1"],
     [username |-> "u3", role_name |-> "nobody"],
     [role_id |-> "1"]}

UpdateUserRequests ==
    {[role_id |-> "2"], [role_name |-> "admin"], [role_name |-> "nobody"], <<>>}

UserIds == {"1", "2", "3"}

\* The accounts a deployment holds before the first request: a legacy
\* plaintext password, no password, the empty password, the digest of the
\* default password, a plaintext password of 64 hexadecimal digits.
SeededUsers ==
    {<<[id |-> "1", username |-> "u1", password |-> "pw1", role_id |-> "1"],
       [id |-> "2", username |-> "u2", password |-> None, role_id |-> None]>>,
     <<[id |-> "1", username |-> "u1", password |-> "sha256(helios)", role_id |-> "2"],
       [id |-> "2", username |-> "u2", password |-> "", role_id |-> "1"]>>,
     <<[id |-> "1", username |-> "u1", password |-> "HEX64", role_id |-> None]>>}

SeededRoles ==
    <<[id |-> "1", role_name |-> "admin"], [id |-> "2", role_name |-> "viewer"]>>

UserTables(users) ==
    [usm_user_accounts |-> users,
     usm_user_accounts_id_seq |-> Len(users),
     usm_roles |-> SeededRoles]

InitUsers ==
    /\ db \in {UserTables(users) : users \in SeededUsers}
    /\ tx = db
    /\ pc = "idle"
    /\ workload = "users"
    /\ request = <<>>
    /\ data_to_process = EmptyTables
    /\ idx = 1
    /\ log = <<>>
    /\ aborted = FALSE
    /\ pre = db
    /\ updated_record_counts = ZeroCounts
    /\ response = NoResponse

\* The handler has run on the request's own session and the response is
\* sent.  written: the database accepted the handler's statements and its
\* commit; a handler that raised HTTPException has written nothing.
RespondUser(op, id, payload, result, written) ==
    LET out == IF written \/ result.status >= 400 THEN result
               ELSE UserResult(db, 500, "Internal Server Error", FALSE)
    IN  /\ pc' = "done"
        /\ request' = [op |-> op, id |-> id, body |-> payload]
        /\ pre' = db
        /\ db' = out.tables
        /\ tx' = out.tables
        /\ response' = [status |-> out.status, message |-> out.detail,
                        must_change_password |-> out.must_change_password]
        /\ UNCHANGED <<workload, data_to_process, idx, log, aborted,
                       updated_record_counts>>

Login ==
    /\ pc = "idle" /\ workload = "users"
    /\ \E payload \in LoginRequests :
         LET result == login(db, payload)
         IN  \E written \in {TRUE, result.tables = db} :
               RespondUser("login", None, payload, result, written)

ChangePassword ==
    /\ pc = "idle" /\ workload = "users"
    /\ \E payload \in ChangePasswordRequests : \E written \in BOOLEAN :
         RespondUser("change_password", None, payload,
                     change_password(db, payload), written)

CreateUser ==
    /\ pc = "idle" /\ workload = "users"
    /\ db["usm_user_accounts_id_seq"] < MaxUserId
    /\ \E payload \in CreateUserRequests : \E written \in BOOLEAN :
         RespondUser("create_user", None, payload, create_user(db, payload), written)

UpdateUser ==
    /\ pc = "idle" /\ workload = "users"
    /\ \E user_id \in UserIds : \E payload \in UpdateUserRequests :
         \E written \in BOOLEAN :
           RespondUser("update_user", user_id, payload,
                       update_user(db, user_id, payload), written)

DeleteUser ==
    /\ pc = "idle" /\ workload = "users"
    /\ \E user_id \in UserIds : \E written \in BOOLEAN :
         RespondUser("delete_user", user_id, <<>>, delete_user(db, user_id), written)

NextUsers == Login \/ ChangePassword \/ CreateUser \/ UpdateUser \/ DeleteUser \/ Return

SpecUsers == InitUsers /\ [][NextUsers]_vars

---------------------------------------------------------------------------
(* Properties of PUT /api/data/update *)

Done200 == pc = "done" /\ response.status = 200

Done500 == pc = "done" /\ response.status = 500

\* The rows of a table (a sequence) that satisfy Test.
Matching(rows, Test(_)) == {i \in DOMAIN rows : Test(rows[i])}

\* The last row of the request that yields an entry of table t with key k.
LastCarrier(t, k) ==
    LET is == {i \in DOMAIN request :
                  /\ RowEntries(t, request[i]) # <<>>
                  /\ KeyOf(t, RowEntries(t, request[i])[1]) = k}
    IN  CHOOSE i \in is : \A j \in is : j <= i

RequestKeys(t) ==
    {KeyOf(t, RowEntries(t, request[i])[1]) :
        i \in {j \in DOMAIN request : RowEntries(t, request[j]) # <<>>}}

\* C4: after deduplication every key that occurs in the request has exactly
\* one entry in its table's bucket, that entry is the one built from the last
\* row of the request carrying the key, and a bucket holds nothing else.
C4_DedupeLastWins ==
    (pc = "update" /\ log = <<>>) =>
      \A t \in Tables :
        LET d == data_to_process[t]
        IN  /\ \A k \in RequestKeys(t) :
                 /\ Cardinality({n \in DOMAIN d : KeyOf(t, d[n]) = k}) = 1
                 /\ \E n \in DOMAIN d :
                      d[n] = RowEntries(t, request[LastCarrier(t, k)])[1]
            /\ \A n \in DOMAIN d : KeyOf(t, d[n]) \in RequestKeys(t)

\* C4 witness: a request in which two rows carry the same key of a table with
\* different field values has been deduplicated.
C4_Witness ==
    /\ pc = "update"
    /\ log = <<>>
    /\ \E t \in Tables : \E i, j \in DOMAIN request :
         /\ i < j
         /\ RowEntries(t, request[i]) # <<>>
         /\ RowEntries(t, request[j]) # <<>>
         /\ KeyOf(t, RowEntries(t, request[i])[1]) = KeyOf(t, RowEntries(t, request[j])[1])
         /\ RowEntries(t, request[i]) # RowEntries(t, request[j])

NativeTables == {"customer", "zones", "camera_configs"}

\* C3: after a successful request each native-upsert table has exactly one
\* row per key written, every column of that row holds the value of the
\* request's (deduplicated) entry for the key, None included, and rows with
\* other keys are as they were.
C3_NativeLastWriteWins ==
    Done200 =>
      \A t \in NativeTables :
        LET d == data_to_process[t]
            target == on_conflict_target(t)
        IN  /\ \A n \in DOMAIN d :
                 /\ Cardinality({i \in DOMAIN db[t] : SameOn(target, db[t][i], d[n])}) = 1
                 /\ \E i \in DOMAIN db[t] : db[t][i] = d[n]
            /\ \A i \in DOMAIN pre[t] :
                 (\A n \in DOMAIN d : ~SameOn(target, pre[t][i], d[n]))
                     => \E j \in DOMAIN db[t] : db[t][j] = pre[t][i]
            /\ \A i, j \in DOMAIN db[t] :
                 i # j => ~SameOn(target, db[t][i], db[t][j])

\* C3 witness: a successful request wrote a key that was already stored,
\* with None in a column where the stored row had a value.
C3_Witness ==
    /\ Done200
    /\ \E t \in NativeTables : \E n \in DOMAIN data_to_process[t] :
         \E i \in DOMAIN pre[t] :
           /\ SameOn(on_conflict_target(t), pre[t][i], data_to_process[t][n])
           /\ \E c \in DOMAIN pre[t][i] :
                pre[t][i][c] # None /\ data_to_process[t][n][c] = None

\* The value C5 expects in column k of a stored temperature after entry e
\* has been merged over the stored row r.
MergedValue(e, r, k) == IF e[k] # None /\ e[k] # "" THEN e[k] ELSE r[k]

\* C5: after a successful request, a temperature id that was stored holds in
\* each non-key column the incoming value when that is neither None nor '',
\* else the stored value; an id that was not stored has one new row with the
\* incoming values; rows whose id is not in the request are unchanged.
C5_TemperatureMerge ==
    Done200 =>
      LET d == data_to_process["temperatures"]
          old == pre["temperatures"]
          new == db["temperatures"]
          ids == {d[n].id : n \in DOMAIN d}
      IN  /\ \A n \in DOMAIN d :
               LET was == {i \in DOMAIN old : old[i].id = d[n].id}
                   now == {i \in DOMAIN new : new[i].id = d[n].id}
               IN  /\ Cardinality(now) = 1
                   /\ \A i \in now :
                        IF was = {} THEN new[i] = d[n]
                        ELSE \A j \in was : \A k \in DOMAIN d[n] \ {"id"} :
                               new[i][k] = MergedValue(d[n], old[j], k)
          /\ \A j \in DOMAIN old :
               old[j].id \notin ids => j \in DOMAIN new /\ new[j] = old[j]
          /\ \A i \in DOMAIN new : new[i].id \in ids \/ (i \in DOMAIN old /\ new[i] = old[i])

\* C5 witness: a successful request merged an entry over a stored temperature:
\* one column kept its stored value because the incoming one was '' or None,
\* another took a new incoming value.
C5_Witness ==
    /\ Done200
    /\ \E n \in DOMAIN data_to_process["temperatures"] :
         \E j \in DOMAIN pre["temperatures"] :
           LET e == data_to_process["temperatures"][n]
               r == pre["temperatures"][j]
           IN  /\ r.id = e.id
               /\ \E k \in DOMAIN e \ {"id"} : e[k] \in {None, ""} /\ r[k] \notin {None, ""}
               /\ \E k \in DOMAIN e \ {"id"} : e[k] \notin {None, ""} /\ r[k] # e[k]

\* C6: a request whose write (or commit) failed has ended with status 500,
\* and every table, committed or seen by the session, holds exactly the rows
\* it held before the request.
C6_AllOrNothing ==
    (pc = "done" /\ log # <<>> /\ log[Len(log)].op = "error") =>
        /\ response.status = 500
        /\ db = pre
        /\ tx = pre

\* C6 witness: the failure came after statements on earlier tables of the
\* same request had succeeded and had changed the session's tables.
C6_Witness ==
    /\ Done500
    /\ Len(log) >= 3
    /\ \E i \in DOMAIN log : log[i].op \in {"upsert", "insert", "update"}
    /\ \E t \in Tables : data_to_process[t] # <<>> /\ pre[t] = <<>>
    /\ log[Len(log)].table \in {"camera_presets", "camera_in_zone", "temperatures"}

\* The position the claim gives each table in the write order.
C8_Rank(t) ==
    CASE t = "customer" -> 1
      [] t = "zones" -> 2
      [] t = "camera_configs" -> 3
      [] t = "camera_presets" -> 4
      [] t = "camera_in_zone" -> 5
      [] t = "temperatures" -> 6
      [] OTHER -> 7

\* C8: the statements a request issues are in the order customer, zones,
\* camera_configs, camera_presets, camera_in_zone, temperatures; a table
\* with no entries gets no statement, and a request that succeeded has
\* issued a statement for every table that has entries.
C8_WriteOrder ==
    /\ \A i, j \in DOMAIN log : i < j => C8_Rank(log[i].table) <= C8_Rank(log[j].table)
    /\ \A i \in DOMAIN log :
         log[i].table \in Tables => data_to_process[log[i].table] # <<>>
    /\ Done200 =>
         \A t \in Tables : data_to_process[t] # <<>> =>
            \E i \in DOMAIN log : log[i].table = t /\ log[i].op # "error"

\* C8 witness: a successful request wrote customer, camera_configs and a
\* later table while the zones bucket was empty.
C8_Witness ==
    /\ Done200
    /\ data_to_process["zones"] = <<>>
    /\ data_to_process["customer"] # <<>>
    /\ data_to_process["camera_configs"] # <<>>
    /\ data_to_process["camera_presets"] # <<>>

Column(rows, c) == {rows[i][c] : i \in DOMAIN rows}

\* The (parent, child) pairs of tables the claim names.
C10_ParentChild ==
    {<<"camera_configs", "camera_presets">>, <<"camera_configs", "camera_in_zone">>,
     <<"zones", "camera_in_zone">>, <<"customer", "camera_configs">>}

\* C10: in the committed tables every camera_presets and camera_in_zone row
\* names a camera_id of camera_configs, every camera_in_zone row a zone_id of
\* zones, every camera_configs row with a client_id a client_id of customer;
\* and no statement on a parent table follows one on its child table within
\* a request.
C10_ParentsExist ==
    /\ Column(db["camera_presets"], "camera_id") \subseteq Column(db["camera_configs"], "camera_id")
    /\ Column(db["camera_in_zone"], "camera_id") \subseteq Column(db["camera_configs"], "camera_id")
    /\ Column(db["camera_in_zone"], "zone_id") \subseteq Column(db["zones"], "zone_id")
    /\ Column(db["camera_configs"], "client_id") \ {None}
          \subseteq Column(db["customer"], "client_id")
    /\ \A pcp \in C10_ParentChild : \A i, j \in DOMAIN log :
          (log[i].table = pcp[2] /\ log[j].table = pcp[1]) => j < i

\* C10 witness: a committed camera_in_zone row and a committed camera_presets
\* row stand next to their camera, zone and customer.
C10_Witness ==
    /\ Done200
    /\ db["camera_in_zone"] # <<>>
    /\ db["camera_presets"] # <<>>
    /\ Column(db["camera_configs"], "client_id") \ {None} # {}

PresetKeyRows(rows, cam, num) ==
    {i \in DOMAIN rows : rows[i].camera_id = cam /\ rows[i].preset_number = num}

\* C1 as claimed: after a successful request camera_presets holds at most one
\* row per (camera_id, preset_number), and when the request carried two rows
\* with the same camera_id and preset_number exactly one row exists for that
\* key.
C1_OneRowPerPresetKey ==
    Done200 =>
      /\ \A i, j \in DOMAIN db["camera_presets"] :
           i # j => KeyOf("camera_presets", db["camera_presets"][i])
                      # KeyOf("camera_presets", db["camera_presets"][j])
      /\ \A i, j \in DOMAIN request :
           (/\ i < j
            /\ RowEntries("camera_presets", request[i]) # <<>>
            /\ RowEntries("camera_presets", request[i])
                  = RowEntries("camera_presets", request[j]))
           => LET e == RowEntries("camera_presets", request[j])[1]
              IN  Cardinality(PresetKeyRows(db["camera_presets"],
                                            e.camera_id, e.preset_number)) = 1

\* C2 as claimed: after a successful request every preset key (camera_id,
\* preset_number) the request carried has its own row, and a stored preset
\* row whose key the request did not carry is still stored.
C2_PresetKeyIsPair ==
    Done200 =>
      /\ \A n \in DOMAIN data_to_process["camera_presets"] :
           LET e == data_to_process["camera_presets"][n]
           IN  PresetKeyRows(db["camera_presets"], e.camera_id, e.preset_number) # {}
      /\ \A i \in DOMAIN pre["camera_presets"] :
           LET r == pre["camera_presets"][i]
           IN  (\A n \in DOMAIN data_to_process["camera_presets"] :
                   data_to_process["camera_presets"][n] # r)
               => PresetKeyRows(db["camera_presets"], r.camera_id, r.preset_number) # {}

\* C11 as claimed: after a successful request every temperature entry the
\* request wrote with a preset_number that is not None has a camera_presets
\* row with that preset_number in the committed tables.
C11_TemperaturePresetExists ==
    Done200 =>
      \A n \in DOMAIN data_to_process["temperatures"] :
        LET e == data_to_process["temperatures"][n]
        IN  e.preset_number # None =>
              \E i \in DOMAIN db["camera_presets"] :
                 db["camera_presets"][i].preset_number = e.preset_number

IsPrefix(s, t) == Len(s) <= Len(t) /\ SubSeq(t, 1, Len(s)) = s

\* C12: the camera_in_zone rows stored when a request began are never
\* changed or removed; the bucket holds one entry per distinct (camera_id,
\* zone_id) pair of the request; and a successful request has appended
\* exactly the bucket to the stored rows, pairs already stored included.
C12_CameraInZoneAppendOnly ==
    /\ IsPrefix(pre["camera_in_zone"], tx["camera_in_zone"])
    /\ IsPrefix(pre["camera_in_zone"], db["camera_in_zone"])
    /\ pc \in {"update", "done"} =>
          LET d == data_to_process["camera_in_zone"]
          IN  /\ Len(d) = Cardinality(RequestKeys("camera_in_zone"))
              /\ {KeyOf("camera_in_zone", d[n]) : n \in DOMAIN d}
                    = RequestKeys("camera_in_zone")
    /\ Done200 =>
          db["camera_in_zone"]
             = pre["camera_in_zone"] \o data_to_process["camera_in_zone"]

\* C12 witness: a successful request carried a pair twice and that pair was
\* already stored: it is now stored once more than before.
C12_Witness ==
    /\ Done200
    /\ \E i, j \in DOMAIN request :
         /\ i < j
         /\ RowEntries("camera_in_zone", request[i]) # <<>>
         /\ RowEntries("camera_in_zone", request[i])
               = RowEntries("camera_in_zone", request[j])
         /\ \E k \in DOMAIN pre["camera_in_zone"] :
               <<pre["camera_in_zone"][k]>> = RowEntries("camera_in_zone", request[i])
    /\ Len(db["camera_in_zone"]) = Len(pre["camera_in_zone"]) + 1

\* C13 as claimed: the counts of a successful response are, table by table,
\* the number of distinct keys the request carried for the table (0 for a
\* table the request has no entries for).
C13_CountsAreDistinctKeys ==
    Done200 =>
      \A t \in Tables :
        updated_record_counts[t] = Cardinality(RequestKeys(t))

\* The temperature entries of the request for which a statement was issued:
\* the id was not stored (insert), or it was stored and the entry has a value
\* to set or the stored row a value to retain (update).
C13_TemperaturesWritten ==
    {n \in DOMAIN data_to_process["temperatures"] :
        LET e == data_to_process["temperatures"][n]
            was == {i \in DOMAIN pre["temperatures"] : pre["temperatures"][i].id = e.id}
        IN  \/ was = {}
            \/ \E k \in DOMAIN e \ {"id"} :
                  \/ e[k] \notin {None, ""}
                  \/ \E i \in was : pre["temperatures"][i][k] # None}

\* C13 amended: the counts of a successful response are the number of
\* distinct keys the request carried for customer, zones, camera_configs,
\* camera_presets and camera_in_zone, and for temperatures the number of
\* distinct ids for which an insert or an update was issued: a stored id
\* whose entry has no value to set and whose stored columns are all null is
\* not counted.
C13_CountsAreStatementsIssued ==
    Done200 =>
      /\ \A t \in Tables \ {"temperatures"} :
            updated_record_counts[t] = Cardinality(RequestKeys(t))
      /\ updated_record_counts["temperatures"] = Cardinality(C13_TemperaturesWritten)

\* C13 witness: a successful request carried two temperature ids; one was
\* written and counted, the other was stored with nothing to change and is
\* not counted.
C13_Witness ==
    /\ Done200
    /\ Cardinality(RequestKeys("temperatures")) = 2
    /\ updated_record_counts["temperatures"] = 1

\* The tables PUT /api/data/update upserts (camera_in_zone is insert-only).
C27_Upserted == Tables \ {"camera_in_zone"}

\* C27: when a PUT /api/data/update has committed, the same request
\* applied to the tables it has left succeeds and leaves customer, zones,
\* camera_configs, camera_presets and temperatures as they are.
C27_Idempotent ==
    (/\ pc = "done"
     /\ workload \in Workloads
     /\ response.status = 200)
    => /\ data_to_process = Buckets(request)
       /\ \A t \in C27_Upserted :
             data_to_process[t] # <<>> =>
                LET again == WriteTable(t, db[t], data_to_process[t])
                IN  ~again.error /\ again.rows = db[t]

\* C27 witness: the committed request has rewritten a stored camera preset
\* or a stored temperature.
C27_Witness ==
    /\ pc = "done"
    /\ workload \in Workloads
    /\ response.status = 200
    /\ \E t \in {"camera_presets", "temperatures"} :
         /\ data_to_process[t] # <<>>
         /\ pre[t] # <<>>
         /\ Len(db[t]) = Len(pre[t])
         /\ db[t] # pre[t]

---------------------------------------------------------------------------
(* Properties of POST /api/upload-file-data *)

\* C7 as claimed: when the database rejected the insert of an entry, the
\* request has ended with a server error and not with "Upload complete", no
\* entry was processed after the rejected one, and nothing was committed.
C7_InsertFailureIsTerminal ==
    (pc = "done" /\ \E i \in DOMAIN log : log[i].op = "dberror") =>
        /\ response.status = 500
        /\ response.message # "Upload complete"
        /\ \A i \in DOMAIN log :
             log[i].op = "dberror" => \A j \in (i + 1)..Len(log) : log[j].table \notin Tables
        /\ db = pre

\* C9 as claimed: no camera_configs, camera_presets or camera_in_zone insert
\* of an upload is issued before that request's customer inserts.
C9_CustomerBeforeChildren ==
    \A i, j \in DOMAIN log :
        (/\ workload = "upload"
         /\ log[i].table = "customer"
         /\ log[i].op \in {"insert", "dberror"}
         /\ log[j].table \in {"camera_configs", "camera_presets", "camera_in_zone"}
         /\ log[j].op \in {"insert", "dberror"})
        => i < j

\* The position each table has in the upload's write order.
C9_Rank(t) ==
    CASE t = "zones" -> 1
      [] t = "camera_configs" -> 2
      [] t = "camera_presets" -> 3
      [] t = "camera_in_zone" -> 4
      [] t = "customer" -> 5
      [] OTHER -> 6

\* C9 amended: the entries of an upload are processed in the order zones,
\* camera_configs, camera_presets, camera_in_zone, customer: zones before
\* the camera tables, these before camera_in_zone, and customer last.
C9_UploadOrder ==
    workload = "upload" =>
      /\ \A i, j \in DOMAIN log : i < j => C9_Rank(log[i].table) <= C9_Rank(log[j].table)
      /\ pc = "done" =>
           \A t \in UploadTables : data_to_process[t] # <<>> =>
              \E i \in DOMAIN log : log[i].table = t

\* C9 witness: an upload has inserted zones, camera_configs and
\* camera_presets rows and then a customer row.
C9_Witness ==
    /\ pc = "done"
    /\ workload = "upload"
    /\ response.message = "Upload complete"
    /\ \A t \in {"zones", "camera_configs", "camera_presets", "customer"} :
         \E i \in DOMAIN log : log[i].table = t /\ log[i].op = "insert"
    /\ \E i \in DOMAIN log : log[i].table = "camera_in_zone"

\* The rows of the upload that supply every mapped header of table t and
\* are not alarm rows.
C24_Supplying(t) ==
    {n \in DOMAIN request :
        /\ ~IsAlarmRow(request[n])
        /\ \A c \in DOMAIN header_mapping[t] :
              Get(request[n], header_mapping[t][c]) # None}

\* C24 as claimed: when an upload whose preset numbers are integers is
\* answered "Upload complete" and the database rejected no insert, every
\* destination table has gained one row for each row of the upload that
\* supplies all of the table's mapped headers and is not an alarm row, and
\* the record_count of the table is the number of rows it has gained.
C24_UploadInsertsAll ==
    (/\ pc = "done"
     /\ workload = "upload"
     /\ response.message = "Upload complete"
     /\ \A i \in DOMAIN log : log[i].op # "dberror"
     /\ \A n \in DOMAIN request :
           Get(request[n], "Preset Number") \in DOMAIN IntLiteral \cup {None})
    => \A t \in UploadTables :
          /\ Len(db[t]) = Len(pre[t]) + Cardinality(C24_Supplying(t))
          /\ updated_record_counts[t] = Len(db[t]) - Len(pre[t])

---------------------------------------------------------------------------
(* Properties of the configuration routes *)

\* The request that has just been answered was handled by op.
Answered(op) == pc = "done" /\ request.op = op

Ids(rows) == {rows[i].id : i \in DOMAIN rows}

MappingsOf(rows, config_id) == SelectSeq(rows, LAMBDA r : r.ec_id = config_id)

MappingsOfOthers(rows, config_id) == SelectSeq(rows, LAMBDA r : r.ec_id # config_id)

\* C14: after a successful DELETE /configurations/{id} no configuration
\* and no mapping row with ec_id = id is stored, the other configurations
\* and the mappings of the other configurations are as they were; and in
\* every state each mapping row names a stored configuration.
C14_DeleteCascades ==
    LET T == "eds_egress_configurations"
        M == "eds_egress_config_data_selectors_mapping"
    IN  /\ (Answered("delete_configuration") /\ response.status = 204) =>
              /\ request.id \notin Ids(db[T])
              /\ MappingsOf(db[M], request.id) = <<>>
              /\ db[M] = MappingsOfOthers(pre[M], request.id)
              /\ db[T] = SelectSeq(pre[T], LAMBDA r : r.id # request.id)
        /\ workload \in ConfigWorkloads =>
              \A i \in DOMAIN db[M] : db[M][i].ec_id \in Ids(db[T])

\* C14 witness: the deleted configuration had mapping rows and so has a
\* configuration that stays.
C14_Witness ==
    LET M == "eds_egress_config_data_selectors_mapping"
    IN  /\ Answered("delete_configuration")
        /\ response.status = 204
        /\ MappingsOf(pre[M], request.id) # <<>>
        /\ MappingsOfOthers(pre[M], request.id) # <<>>

\* The table each get-by-id handler reads.
C15_ReadTable ==
    [read_configuration |-> "eds_egress_configurations",
     read_egress_endpoint |-> "eds_egress_endpoints",
     read_schedule |-> "eds_schedules",
     read_data_selector |-> "eds_data_selectors"]

\* C15: a get-by-id request for an id that is not stored is answered 404
\* and leaves every table as it was.
C15_ReadAbsentIs404 ==
    (/\ pc = "done"
     /\ workload \in ConfigWorkloads
     /\ request.op \in DOMAIN C15_ReadTable
     /\ request.id \notin Ids(pre[C15_ReadTable[request.op]]))
    => /\ response.status = 404
       /\ db = pre

\* C15 witness: an egress endpoint that is not stored was asked for while
\* another one is stored.
C15_Witness ==
    /\ Answered("read_egress_endpoint")
    /\ request.id \notin Ids(pre["eds_egress_endpoints"])
    /\ pre["eds_egress_endpoints"] # <<>>
    /\ response.status = 404

\* The table each create handler inserts into.
C16_CreateTable ==
    [create_configuration |-> "eds_egress_configurations",
     create_egress_endpoint |-> "eds_egress_endpoints"]

\* The body passes the validation of the handler's request model: it holds
\* the required fields, and endpoint is a URL.
C16_Validates(op, body) ==
    /\ "id" \in DOMAIN body
    /\ op = "create_configuration" => "name" \in DOMAIN body
    /\ op = "create_egress_endpoint" =>
          "endpoint" \in DOMAIN body /\ body.endpoint \in DOMAIN HttpUrlStr

\* C16: a create request (configuration, egress endpoint) with a valid body
\* whose id is stored is answered 400 and leaves every table as it was; and in every
\* state the two tables hold at most one row per id.
C16_CreateExistingIs400 ==
    /\ (/\ pc = "done"
        /\ workload \in ConfigWorkloads
        /\ request.op \in DOMAIN C16_CreateTable
        /\ C16_Validates(request.op, request.body)
        /\ request.body.id \in Ids(pre[C16_CreateTable[request.op]]))
       => /\ response.status = 400
          /\ db = pre
    /\ workload \in ConfigWorkloads =>
          \A T \in {"eds_egress_configurations", "eds_egress_endpoints"} :
            \A i, j \in DOMAIN db[T] : db[T][i].id = db[T][j].id => i = j

\* C16 witness: the rejected body differs from the stored row with its id.
C16_Witness ==
    /\ Answered("create_configuration")
    /\ response.status = 400
    /\ \E i \in DOMAIN pre["eds_egress_configurations"] :
         LET r == pre["eds_egress_configurations"][i]
         IN  /\ r.id = request.body.id
             /\ "description" \in DOMAIN request.body
             /\ r.description # request.body.description
             /\ r.name = request.body.name

\* The table and the request model of each update handler.
C17_Update ==
    [update_configuration |->
        [table |-> "eds_egress_configurations", fields |-> ConfigurationUpdate],
     update_egress_endpoint |->
        [table |-> "eds_egress_endpoints", fields |-> EgressEndpointUpdate],
     update_schedule |-> [table |-> "eds_schedules", fields |-> ScheduleUpdate],
     update_data_selector |->
        [table |-> "eds_data_selectors", fields |-> DataSelectorUpdate]]

\* The value the claim expects in column c of the updated row: the one the
\* body supplies for the field (a URL as the string of the validated URL)
\* when the body holds one of the field's keys, else the stored one.
C17_Expected(fields, body, c, stored) ==
    IF c \notin DOMAIN fields \/ SuppliedKey(fields[c], body) = 0 THEN stored
    ELSE LET v == body[fields[c][SuppliedKey(fields[c], body)]]
         IN  IF c \in HttpUrlFields /\ v \in DOMAIN HttpUrlStr
             THEN HttpUrlStr[v] ELSE v

C23_Supplied ==
    /\ "dataSelectorIds" \in DOMAIN request.body
    /\ request.body["dataSelectorIds"] # NoList

\* C23: after a successful PUT /configurations/{id} whose body supplies a
\* list of distinct data-selector ids, every supplied id has exactly one
\* mapping row with ec_id = id and no other mapping row has ec_id = id;
\* without the list the mapping rows with ec_id = id are as they were; and
\* either way the mapping rows of the other configurations are as they were.
C23_ReplacesMappingSet ==
    (Answered("update_configuration") /\ response.status = 200)
    => LET M == "eds_egress_config_data_selectors_mapping"
           rows == MappingsOf(db[M], request.id)
           ids == request.body["dataSelectorIds"]
           supplied == {ids[n] : n \in DOMAIN ids}
       IN  /\ C23_Supplied =>
                /\ \A d \in supplied :
                      Cardinality({i \in DOMAIN rows : rows[i].ds_id = d}) = 1
                /\ \A i \in DOMAIN rows : rows[i].ds_id \in supplied
           /\ ~C23_Supplied => rows = MappingsOf(pre[M], request.id)
           /\ MappingsOfOthers(db[M], request.id) = MappingsOfOthers(pre[M], request.id)

\* C23 witness: the configuration had two mapping rows, another
\* configuration has some, and the PUT has left the one supplied id.
C23_Witness ==
    LET M == "eds_egress_config_data_selectors_mapping"
    IN  /\ Answered("update_configuration")
        /\ response.status = 200
        /\ "dataSelectorIds" \in DOMAIN request.body
        /\ request.body["dataSelectorIds"] = <<"d2">>
        /\ Len(MappingsOf(pre[M], request.id)) = 2
        /\ Len(MappingsOf(db[M], request.id)) = 1
        /\ MappingsOfOthers(pre[M], request.id) # <<>>

---------------------------------------------------------------------------
(* Properties of user management *)

\* The accounts with the username of the answered request, as they were
\* stored when the request arrived.
AccountsBefore ==
    {i \in DOMAIN pre["usm_user_accounts"] :
        pre["usm_user_accounts"][i].username = request.body.username}

\* C18 as claimed: a DELETE of /users/{user_id}, or a PATCH that names a
\* role, for a user_id that is not stored is answered 404 and leaves every
\* table as it was (the database accepting the handler's statements).
C18_AbsentUserIs404 ==
    (/\ pc = "done"
     /\ workload = "users"
     /\ request.op \in {"delete_user", "update_user"}
     /\ request.op = "update_user" =>
           ResolveRole(pre, request.body) \notin {None, "not found"}
     /\ response.status # 500
     /\ request.id \notin Ids(pre["usm_user_accounts"]))
    => /\ response.status = 404
       /\ db = pre

\* The submitted password matches the stored credential p: its digest is
\* the stored digest, or it is the stored plaintext.
C19_Matches(password, p) ==
    IF is_sha256_hex(p) THEN hash_password_sha256[password] = p
    ELSE password = p

\* C19 as claimed: a login is answered 200 only when an account with the
\* username is stored and the submitted password matches its stored
\* password; a login for a username that is not stored, or with a password
\* that does not match, is answered 401 and leaves every table as it was
\* (usernames being unique and the database accepting the statements).
C19_LoginNeedsMatch ==
    (/\ Answered("login")
     /\ workload = "users"
     /\ Cardinality(AccountsBefore) <= 1
     /\ response.status # 500)
    => LET U == pre["usm_user_accounts"]
           matches == \E i \in AccountsBefore :
                         C19_Matches(request.body.password, U[i].password)
       IN  /\ response.status = 200 => matches
           /\ ~matches => response.status = 401 /\ db = pre

\* C20: when a login is answered 200 and the stored password was not a
\* digest, the stored password is now the digest of the submitted one, the
\* response has must_change_password, and the same login again succeeds
\* and leaves the tables as they are; a login on a stored digest and a
\* login that is not answered 200 leave the tables as they were; and a
\* password that is a digest before a request is a digest after it.
C20_MigrationIsOneTime ==
    LET U == "usm_user_accounts"
    IN  /\ (Answered("login") /\ workload = "users" /\ Cardinality(AccountsBefore) = 1)
           => LET i == CHOOSE k \in AccountsBefore : TRUE
                  stored == pre[U][i].password
              IN  /\ (response.status = 200 /\ ~is_sha256_hex(stored)) =>
                        /\ db[U][i].password = hash_password_sha256[request.body.password]
                        /\ is_sha256_hex(db[U][i].password)
                        /\ response.must_change_password
                        /\ login(db, request.body).status = 200
                        /\ login(db, request.body).tables = db
                  /\ is_sha256_hex(stored) => db = pre
                  /\ response.status # 200 => db = pre
        /\ workload = "users" =>
              \A i \in DOMAIN pre[U] : \A j \in DOMAIN db[U] :
                 (pre[U][i].id = db[U][j].id /\ is_sha256_hex(pre[U][i].password))
                    => is_sha256_hex(db[U][j].password)

\* C20 witness: the login that has just been answered found the plaintext
\* pw1 and left its digest.
C20_Witness ==
    /\ Answered("login")
    /\ response.status = 200
    /\ response.must_change_password
    /\ \E i \in AccountsBefore :
         /\ pre["usm_user_accounts"][i].password = "pw1"
         /\ db["usm_user_accounts"][i].password = "sha256(pw1)"

\* The stored password of the one account with the request's username, as
\* the handlers read it ("password or ''").
StoredBefore ==
    Or(pre["usm_user_accounts"][CHOOSE i \in AccountsBefore : TRUE].password, "")

\* C21: a change-password request with the correct current password whose
\* new password is shorter than 8 characters, is in the deny-list when
\* lower-cased, or contains the lower-cased username, is rejected (422 for
\* the length, 400 for the other two) and leaves every table as it was.
C21_WeakPasswordRejected ==
    (/\ Answered("change_password")
     /\ workload = "users"
     /\ Cardinality(AccountsBefore) = 1
     /\ C19_Matches(request.body.current_password, StoredBefore)
     /\ \/ request.body.new_password \notin min_length_8
        \/ lower[request.body.new_password] \in COMMON
        \/ Contains(lower[request.body.username], lower[request.body.new_password]))
    => /\ response.status \in {400, 422}
       /\ db = pre

\* C21 witness: after the login that migrated pw1 to its digest, a change
\* to a deny-listed password has been rejected.
C21_Witness ==
    /\ Answered("change_password")
    /\ Cardinality(AccountsBefore) = 1
    /\ StoredBefore = "sha256(pw1)"
    /\ request.body.username = "u1"
    /\ request.body.current_password = "pw1"
    /\ request.body.new_password = "PASSWORD1"
    /\ response.status = 400
    /\ response.message = "Password is too common"
    /\ db = pre

\* The password POST /users gave the account it has just created.
C25_InitialPassword ==
    Or(Get(request.body, "default_password"), get_default_password)

\* C25 as claimed: once POST /users has created an account, a login with
\* the username and the initial password that succeeds returns
\* must_change_password = true (no request having changed the password
\* since).
C25_CreatedUserMustChange ==
    (Answered("create_user") /\ workload = "users" /\ response.status = 200)
    => LET first == login(db, [username |-> request.body.username,
                               password |-> C25_InitialPassword])
       IN  first.status = 200 => first.must_change_password

\* C26 as claimed: a change-password request whose body passes validation
\* is answered 404 for a username that is not stored and 400 for a current
\* password that does not match the stored one, both leaving every table
\* as it was; and after a change from p to a different q that succeeded, a
\* login with q succeeds and a login with p is answered 401 (the database
\* accepting the statements).
C26_ChangePasswordEffects ==
    (/\ Answered("change_password")
     /\ workload = "users"
     /\ request.body.new_password \in min_length_8
     /\ response.status # 500)
    => LET U == pre["usm_user_accounts"]
           u == request.body.username
           p == request.body.current_password
           q == request.body.new_password
           matches == \E i \in AccountsBefore : C19_Matches(p, U[i].password)
       IN  /\ AccountsBefore = {} => (response.status = 404 /\ db = pre)
           /\ (Cardinality(AccountsBefore) = 1 /\ ~matches)
                 => (response.status = 400 /\ db = pre)
           /\ (response.status = 200 /\ p # q) =>
                 /\ login(db, [username |-> u, password |-> q]).status = 200
                 /\ login(db, [username |-> u, password |-> p]).status = 401

\* C30 as claimed: a login for an account whose stored password is NULL or
\* the empty string is answered 401, whatever password is submitted, and
\* leaves every table as it was (the database accepting the statements).
C30_NoPasswordNoLogin ==
    (/\ Answered("login")
     /\ workload = "users"
     /\ Cardinality(AccountsBefore) = 1
     /\ response.status # 500
     /\ \E i \in AccountsBefore :
          pre["usm_user_accounts"][i].password \in {None, ""})
    => /\ response.status = 401
       /\ db = pre

---------------------------------------------------------------------------
(* Two requests at a time.  Every request has its own session            *)
(* (get_async_session) and so its own PostgreSQL transaction at the      *)
(* default isolation level, READ COMMITTED: a statement sees the rows    *)
(* committed before it started and the session's own writes; a write to  *)
(* a row another open transaction has written waits until that           *)
(* transaction has ended.  In these specifications pc, tx, request,      *)
(* data_to_process, idx, updated_record_counts and response hold one     *)
(* value per session, db is what is committed, and log is the order in   *)
(* which the sessions left their transactions.                           *)

Sessions == {"s1", "s2"}

Other(s) == CHOOSE o \in Sessions : o # s

\* The columns of the unique index a write of the table conflicts on: the
\* conflict target of the native-upsert tables, and the primary key the
\* handler names for camera_presets.
UniqueKey(table) ==
    CASE table = "camera_presets" -> {"preset_number"}
      [] table = "camera_in_zone" -> {"camera_id", "zone_id"}
      [] table = "temperatures" -> {"id"}
      [] OTHER -> on_conflict_target(table)

\* The committed rows, each replaced by the version an open transaction
\* has written of it, if any.
Overlay(rows, writes, key) ==
    [i \in DOMAIN rows |->
        IF \E j \in DOMAIN writes : SameOn(key, rows[i], writes[j])
        THEN writes[CHOOSE j \in DOMAIN writes : SameOn(key, rows[i], writes[j])]
        ELSE rows[i]]

\* What a statement of session s reads in the table, and what its commit
\* leaves: the committed rows in the session's versions, then the rows the
\* session has inserted.
View(s, table) ==
    Overlay(db[table], tx[s].writes[table], UniqueKey(table)) \o tx[s].inserts[table]

NoRowLocks(s, table, entry) == FALSE

\* The other session holds the lock of the row with the entry's key: it
\* has written or inserted the row and has neither committed nor rolled
\* back.
Locked(s, table, entry) ==
    \E r \in {tx[Other(s)].writes[table][j] : j \in DOMAIN tx[Other(s)].writes[table]}
           \cup {tx[Other(s)].inserts[table][j] :
                    j \in DOMAIN tx[Other(s)].inserts[table]} :
        SameOn(UniqueKey(table), r, entry)

\* An insert of the entry violates the table's unique index: a row the
\* session sees has the entry's key.
PrimaryKeyViolation(s, table, entry) ==
    \E i \in DOMAIN View(s, table) :
        SameOn(UniqueKey(table), View(s, table)[i], entry)

\* The session's transaction after a statement that has turned the view
\* of the table into after: the versions of the committed rows that the
\* session has written (now or before), and the rows it has inserted.
AfterStatement(s, table, after, entries) ==
    LET stored == SubSeq(after, 1, Len(db[table]))
        key == UniqueKey(table)
        written == SelectSeq(stored,
                     LAMBDA r :
                        \/ \E n \in DOMAIN entries : SameOn(key, r, entries[n])
                        \/ \E j \in DOMAIN tx[s].writes[table] :
                              SameOn(key, r, tx[s].writes[table][j]))
    IN  [tx[s] EXCEPT !.writes[table] = written,
                      !.inserts[table] = SubSeq(after, Len(db[table]) + 1, Len(after))]

\* A session with no open transaction.
NoTransaction ==
    [writes |-> EmptyTables, inserts |-> EmptyTables,
     existing_record |-> FALSE, n |-> 1]

\* The sheets of two clients that write the same camera and customer, and
\* of two clients that write the same camera presets.  The two clients of
\* POST /configurations/ send bodies of ConfigurationCreateBodies.
RaceRequests(w) ==
    IF w = "configuration race"
    THEN {}
    ELSE IF w = "native race"
    THEN {<<[camera_id |-> "c1", camera_name |-> "n1"]>>,
          <<[camera_id |-> "c1", client_id |-> "k1"]>>,
          <<[camera_id |-> "c1", camera_name |-> "n2", client_id |-> "k1",
             client_name |-> "a"]>>,
          <<[client_id |-> "k1", client_name |-> "b"],
            [camera_id |-> "c2", camera_name |-> "n1"]>>}
    ELSE {<<[camera_id |-> "c1", preset_number |-> "1"]>>,
          <<[camera_id |-> "c1", preset_number |-> "01"]>>,
          <<[camera_id |-> "c2", preset_number |-> "1"]>>,
          <<[camera_id |-> "c1", preset_number |-> "2"],
            [camera_id |-> "c1", preset_number |-> "1"]>>}

RaceWorkloads == {"native race", "preset race", "configuration race"}

\* The rows stored before the two requests arrive.
RaceSeeds(w) ==
    IF w = "configuration race"
    THEN {SeededTables}
    ELSE IF w = "native race"
    THEN {EmptyTables,
          [EmptyTables EXCEPT
             !["camera_configs"] = <<camera_config_data(
                 [camera_id |-> "c1", camera_name |-> "n0", brand |-> "b0"])>>]}
    ELSE {EmptyTables,
          [EmptyTables EXCEPT
             !["camera_presets"] = <<[camera_id |-> "c2", preset_number |-> "1"]>>]}

InitRace ==
    /\ workload \in RaceWorkloads
    /\ db \in RaceSeeds(workload)
    /\ pre = db
    /\ tx = [s \in Sessions |-> NoTransaction]
    /\ pc = [s \in Sessions |-> "idle"]
    /\ request = [s \in Sessions |-> <<>>]
    /\ data_to_process = [s \in Sessions |-> EmptyTables]
    /\ idx = [s \in Sessions |-> 1]
    /\ log = <<>>
    /\ aborted = FALSE
    /\ updated_record_counts = [s \in Sessions |-> ZeroCounts]
    /\ response = [s \in Sessions |-> NoResponse]

\* A request arrives on session s: the buckets are built and deduplicated.
RReceive(s) ==
    /\ pc[s] = "idle"
    /\ \E rows \in RaceRequests(workload) :
         /\ request' = [request EXCEPT ![s] = rows]
         /\ data_to_process' = [data_to_process EXCEPT ![s] = Buckets(rows)]
         /\ idx' = [idx EXCEPT ![s] = NextTable(insert_order, Buckets(rows), 1)]
    /\ pc' = [pc EXCEPT ![s] = "update"]
    /\ UNCHANGED <<db, tx, workload, log, aborted, pre, updated_record_counts, response>>

\* The ON CONFLICT DO UPDATE statement of the next table with entries.  It
\* proceeds when no row it writes is locked by the other session.
RUpsert(s) ==
    /\ pc[s] = "update"
    /\ idx[s] <= Len(insert_order)
    /\ LET t == insert_order[idx[s]]
           entries == data_to_process[s][t]
           after == NativeUpsert(View(s, t), entries, on_conflict_target(t))
       IN  /\ t \in {"customer", "zones", "camera_configs"}
           /\ \A n \in DOMAIN entries : ~Locked(s, t, entries[n])
           /\ tx' = [tx EXCEPT ![s] = AfterStatement(s, t, after, entries)]
           /\ updated_record_counts' =
                 [updated_record_counts EXCEPT ![s][t] = @ + Len(entries)]
    /\ idx' = [idx EXCEPT ![s] = NextTable(insert_order, data_to_process[s], idx[s] + 1)]
    /\ UNCHANGED <<db, pc, workload, request, data_to_process, log, aborted, pre, response>>

\* The select of the camera_presets entry at position tx[s].n.
RPresetSelect(s) ==
    /\ pc[s] = "update"
    /\ idx[s] <= Len(insert_order)
    /\ insert_order[idx[s]] = "camera_presets"
    /\ LET e == data_to_process[s]["camera_presets"][tx[s].n]
       IN  tx' = [tx EXCEPT ![s].existing_record =
                     ExistingPreset(View(s, "camera_presets"), e) # {}]
    /\ pc' = [pc EXCEPT ![s] = "selected"]
    /\ UNCHANGED <<db, workload, request, data_to_process, idx, log, aborted, pre,
                   updated_record_counts, response>>

\* The session leaves the entry it has written and goes to the next one,
\* or to the next table after the last.
NextEntry(s, transaction) ==
    LET last == tx[s].n = Len(data_to_process[s]["camera_presets"])
    IN  /\ tx' = [tx EXCEPT ![s] = [transaction EXCEPT
                                       !.existing_record = FALSE,
                                       !.n = IF last THEN 1 ELSE tx[s].n + 1]]
        /\ idx' = [idx EXCEPT ![s] =
                     IF last
                     THEN NextTable(insert_order, data_to_process[s], idx[s] + 1)
                     ELSE idx[s]]
        /\ updated_record_counts' =
              [updated_record_counts EXCEPT ![s]["camera_presets"] = @ + 1]
        /\ pc' = [pc EXCEPT ![s] = "update"]

\* The session's transaction is rolled back and the request answered 500.
Raise(s, why) ==
    /\ tx' = [tx EXCEPT ![s] = NoTransaction]
    /\ log' = Append(log, [session |-> s, op |-> why])
    /\ response' = [response EXCEPT
                       ![s] = [status |-> 500, message |-> "Failed to update file data"]]
    /\ pc' = [pc EXCEPT ![s] = "done"]

\* The update or the insert the select of the entry has led to.  Either
\* waits for the lock of a row the other session has written; an insert of
\* a preset_number that is committed by then violates the primary key.
RPresetWrite(s) ==
    /\ pc[s] = "selected"
    /\ LET t == "camera_presets"
           e == data_to_process[s][t][tx[s].n]
           view == View(s, t)
           hit == ExistingPreset(view, e)
           updated == [i \in DOMAIN view |->
                          IF i \in hit THEN ApplyValues(view[i], NonNoneItems(e))
                          ELSE view[i]]
       IN  /\ ~Locked(s, t, e)
           /\ IF tx[s].existing_record
              THEN /\ NextEntry(s, AfterStatement(s, t, updated, <<e>>))
                   /\ UNCHANGED <<log, response>>
              ELSE IF PrimaryKeyViolation(s, t, e)
              THEN /\ Raise(s, "unique violation")
                   /\ UNCHANGED <<idx, updated_record_counts>>
              ELSE /\ NextEntry(s, [tx[s] EXCEPT !.inserts[t] = Append(@, e)])
                   /\ UNCHANGED <<log, response>>
    /\ UNCHANGED <<db, workload, request, data_to_process, aborted, pre>>

\* A statement or the commit of the session raises for a reason of the
\* database's (a deadlock among row locks, a lost connection): the
\* handler's except clause rolls back and answers 500.
RFail(s) ==
    /\ pc[s] \in {"update", "selected"}
    /\ Raise(s, "error")
    /\ UNCHANGED <<db, workload, request, data_to_process, idx, aborted, pre,
                   updated_record_counts>>

\* session.commit() and the success response.
RCommit(s) ==
    /\ pc[s] = "update"
    /\ idx[s] = Len(insert_order) + 1
    /\ db' = [t \in Tables |-> View(s, t)]
    /\ tx' = [tx EXCEPT ![s] = NoTransaction]
    /\ log' = Append(log, [session |-> s, op |-> "commit"])
    /\ response' = [response EXCEPT
                       ![s] = [status |-> 200,
                               message |-> "File data updated successfully"]]
    /\ pc' = [pc EXCEPT ![s] = "done"]
    /\ UNCHANGED <<workload, request, data_to_process, idx, aborted, pre,
                   updated_record_counts>>

\* POST /configurations/ on session s up to db.add: the body is validated
\* and the id is looked up among the committed rows.  A rejected request is
\* answered at once; otherwise the session holds the new row, unflushed.
RCreateCheck(s) ==
    /\ pc[s] = "idle"
    /\ workload = "configuration race"
    /\ \E body \in ConfigurationCreateBodies :
         LET result == create_configuration(db, body)
             T == "eds_egress_configurations"
         IN  /\ request' = [request EXCEPT ![s] = body]
             /\ IF result.status >= 400
                THEN /\ response' = [response EXCEPT
                                        ![s] = [status |-> result.status,
                                                message |-> result.detail]]
                     /\ pc' = [pc EXCEPT ![s] = "done"]
                     /\ UNCHANGED <<tx, log>>
                ELSE /\ tx' = [tx EXCEPT ![s] =
                                  [db_config |-> result.tables[T][Len(result.tables[T])]]]
                     /\ log' = Append(log, [session |-> s, op |-> "check"])
                     /\ pc' = [pc EXCEPT ![s] = "checked"]
                     /\ UNCHANGED response
    /\ UNCHANGED <<db, workload, data_to_process, idx, aborted, pre,
                   updated_record_counts>>

\* db.commit() of POST /configurations/: the insert is flushed and
\* committed.  The id is the table's primary key, so the insert of an id
\* that is committed by then raises; nothing in the handler catches it,
\* the session is closed without a commit and the framework answers 500.
\* So it does when the database fails for a reason of its own.
RCreateCommit(s) ==
    /\ pc[s] = "checked"
    /\ LET T == "eds_egress_configurations"
           db_config == tx[s].db_config
       IN  \E written \in BOOLEAN :
             IF WhereId(db[T], db_config.id) # {} \/ ~written
             THEN /\ log' = Append(log,
                        [session |-> s,
                         op |-> IF written THEN "unique violation" ELSE "error"])
                  /\ response' = [response EXCEPT
                         ![s] = [status |-> DatabaseRejects(db).status,
                                 message |-> DatabaseRejects(db).detail]]
                  /\ db' = db
             ELSE /\ db' = [db EXCEPT ![T] = Append(@, db_config)]
                  /\ log' = Append(log, [session |-> s, op |-> "commit"])
                  /\ response' = [response EXCEPT
                         ![s] = [status |-> 201, message |-> "created"]]
    /\ tx' = [tx EXCEPT ![s] = NoTransaction]
    /\ pc' = [pc EXCEPT ![s] = "done"]
    /\ UNCHANGED <<workload, request, data_to_process, idx, aborted, pre,
                   updated_record_counts>>

NextRace ==
    \E s \in Sessions :
        \/ RReceive(s)
        \/ RUpsert(s)
        \/ RPresetSelect(s)
        \/ RPresetWrite(s)
        \/ RFail(s)
        \/ RCommit(s)
        \/ RCreateCheck(s)
        \/ RCreateCommit(s)

SpecRace == InitRace /\ [][NextRace]_vars

---------------------------------------------------------------------------
(* Properties of two concurrent PUT /api/data/update requests *)

BothFinished == \A s \in Sessions : pc[s] = "done"

\* The sessions whose transaction was committed, and the one that
\* committed last.
Committed == {s \in Sessions : response[s].status = 200}

LastCommitted ==
    log[CHOOSE i \in DOMAIN log :
           /\ log[i].op = "commit"
           /\ \A j \in (i + 1)..Len(log) : log[j].op # "commit"].session

\* The entry of session s for the key of entry e in the table, if any.
EntriesFor(s, table, e) ==
    SelectSeq(data_to_process[s][table],
              LAMBDA d : SameOn(on_conflict_target(table), d, e))

\* C22: when two concurrent requests have finished and both carried an
\* entry for the same key of customer, zones or camera_configs, and one of
\* them at least was committed, the table holds exactly one row with the
\* key and the row is, column for column, the entry of the request that
\* committed last.
C22_LastWriteWins ==
    (BothFinished /\ workload = "native race" /\ Committed # {})
    => \A t \in NativeTables :
         \A n \in DOMAIN data_to_process["s1"][t] :
            LET e == data_to_process["s1"][t][n]
                rows == SelectSeq(db[t], LAMBDA r : SameOn(on_conflict_target(t), r, e))
            IN  EntriesFor("s2", t, e) # <<>> =>
                   /\ Len(rows) = 1
                   /\ rows[1] = EntriesFor(LastCommitted, t, e)[1]

\* C22 witness: both requests were committed, they carried different
\* entries for a camera that was stored before, and the camera's row is now
\* the entry of the second committer and not that of the first.
C22_Witness ==
    /\ BothFinished
    /\ workload = "native race"
    /\ Committed = Sessions
    /\ pre["camera_configs"] # <<>>
    /\ \E n \in DOMAIN data_to_process["s1"]["camera_configs"] :
         LET e == data_to_process["s1"]["camera_configs"][n]
             o == EntriesFor("s2", "camera_configs", e)
         IN  /\ o # <<>>
             /\ o[1] # e
             /\ \E i \in DOMAIN db["camera_configs"] :
                   db["camera_configs"][i] = EntriesFor(LastCommitted, "camera_configs", e)[1]

\* The camera_presets rows with the camera_id and preset_number of entry e.
PresetRowsFor(rows, e) ==
    SelectSeq(rows, LAMBDA r : r.camera_id = e.camera_id
                               /\ r.preset_number = e.preset_number)

\* C28: when two concurrent requests that both carried a camera preset
\* key that was not stored have finished, camera_presets holds at most one
\* row with that key.
C28_OnePresetRow ==
    (BothFinished /\ workload = "preset race")
    => \A n \in DOMAIN data_to_process["s1"]["camera_presets"] :
          LET e == data_to_process["s1"]["camera_presets"][n]
          IN  (/\ PresetRowsFor(data_to_process["s2"]["camera_presets"], e) # <<>>
               /\ PresetRowsFor(pre["camera_presets"], e) = <<>>)
              => Len(PresetRowsFor(db["camera_presets"], e)) <= 1

\* C28 witness: both requests carried a key that was not stored, both
\* were committed, and one row has the key.
C28_Witness ==
    /\ BothFinished
    /\ workload = "preset race"
    /\ Committed = Sessions
    /\ \E n \in DOMAIN data_to_process["s1"]["camera_presets"] :
          LET e == data_to_process["s1"]["camera_presets"][n]
          IN  /\ PresetRowsFor(data_to_process["s2"]["camera_presets"], e) # <<>>
              /\ PresetRowsFor(pre["camera_presets"], e) = <<>>
              /\ Len(PresetRowsFor(db["camera_presets"], e)) = 1

----------------------------------------------------------------------------
(* Properties of two concurrent POST /configurations/ requests *)

\* Both requests passed the existence check before either committed: the
\* first two events of the log are the two checks.
BothCheckedFirst ==
    /\ Len(log) >= 2
    /\ log[1].op = "check" /\ log[2].op = "check"
    /\ log[1].session # log[2].session

\* C29: when two concurrent POST /configurations/ requests with the same
\* id have both checked for the id before either committed, and the
\* database failed neither for a reason of its own, at most one is answered
\* 201, the other is answered 400 'already exists', and exactly one row
\* with the id is stored afterwards.
C29_SecondCreateIs400 ==
    (/\ BothFinished
     /\ workload = "configuration race"
     /\ BothCheckedFirst
     /\ request["s1"].id = request["s2"].id
     /\ \A i \in DOMAIN log : log[i].op # "error")
    => /\ Cardinality({s \in Sessions : response[s].status = 201}) <= 1
       /\ \A s \in Sessions :
             response[s].status # 201
             => /\ response[s].status = 400
                /\ response[s].message = "Configuration already exists."
       /\ Cardinality(WhereId(db["eds_egress_configurations"], request["s1"].id)) = 1

=============================================================================
